---- MODULE Spec2Model ----
(***************************************************************************)
(* A model of the TotemArts patcher (lib/patcher): the planner             *)
(* (DetermineFilesToMeasure / DetermineActions), the orchestrator          *)
(* (RunPatcher and its three phases), the manifest store and the           *)
(* downloader (DownloadFile), and the instruction decoder                  *)
(* (DecodeInstructions).                                                   *)
(*                                                                         *)
(* Five specifications share the variables:                                *)
(*   SpecPlan      the two planner functions applied to bounded inputs     *)
(*   SpecRun       one RunPatcher call, its workers, the external cancel   *)
(*   SpecManifest  a manifest filled, written and read back                *)
(*   SpecDL        one Downloader with a DownloadFile call and a server    *)
(*   SpecDecode    DecodeInstructions applied to bounded payloads          *)
(***************************************************************************)
EXTENDS Integers, Sequences, FiniteSets, TLC

VARIABLES
    instructions,      \* []Instruction handed to RunPatcher / the planner
    installFiles,      \* the install directory: path -> file or Nil
    manifest,          \* the in-memory *Manifest
    manifestFile,      \* ta-manifest.json on disk, Nil when absent
    existingFiles,     \* result of ScanFiles: path -> BasicFileInfo
    toMeasure,         \* first result of DetermineFilesToMeasure
    manifestChecksums, \* second result of DetermineFilesToMeasure
    checksums,         \* the combined checksums handed to DetermineActions
    actions,           \* the DeterminedActions
    pc,                \* position of the orchestrator / planner driver
    extCancelled,      \* the context given to RunPatcher has been cancelled
    verifyW,           \* status of each verify worker invocation
    downloadW,         \* status of each download worker invocation
    applyW,            \* status of each apply worker invocation
    applyExit,         \* exit status of the xdelta process of each apply worker
    groupErr,          \* first error recorded by the running errgroup
    result,            \* what RunPatcher returned
    failedAt,          \* the position at which RunPatcher returned its error
    patchFiles,        \* staging: patch files present under patch/
    tempFiles,         \* staging: outputs under patch/apply/
    stagingRemoved,    \* os.RemoveAll(patchDir) was executed by this run
    manifestWrites,    \* number of WriteManifest calls that wrote the file
    renamed,           \* install paths a staged file was renamed onto
    deleted,           \* install paths removed as obsolete
    clock,             \* file system time, stamps new files
    numWorkers,        \* the per-phase worker bound
    dl,                \* the downloader and its DownloadFile call
    man2,              \* a manifest read back from ta-manifest.json
    progress,          \* the ProgressTracker and the progress goroutine
    goos,              \* the operating system the binary is built for
    jsonData,          \* the instructions.json payload given to the decoder
    decoded            \* what DecodeInstructions returned

planVars == <<instructions, manifest, existingFiles, toMeasure,
              manifestChecksums, checksums, actions>>
diskVars == <<installFiles, manifestFile, patchFiles, tempFiles,
              stagingRemoved, manifestWrites, renamed, deleted, clock>>
workVars == <<verifyW, downloadW, applyW, applyExit, groupErr>>
retVars == <<result, failedAt>>
decVars == <<goos, jsonData, decoded>>
vars == <<planVars, diskVars, workVars, pc, extCancelled, retVars,
          numWorkers, decVars, dl, man2, progress>>

----------------------------------------------------------------------------
(* Bounds of the model *)

MaxInstr == 2

\* DownloadConfig.MaxAttempts of the model
MaxAttempts == 2

\* Largest expectedSize and largest patch file of the model, in bytes
MaxSize == 2

\* DownloadConfig.DownloadStallTimeout of the model, in seconds
StallTimeout == 1

\* Largest number of calls of ProgressFunc for ticks of the progress ticker
MaxTicks == 1

\* Largest number of characters of a Path given to the decoder
MaxPathLen == 4

\* Largest number of records of a payload of several records
MaxRecords == 2

\* DownloadConfig.RetryBaseDelay in milliseconds
RetryBaseDelay == 1000

\* DownloadConfig.RetryWaitIncrementFactor as a fraction: 3/2
RetryFactorNum == 3
RetryFactorDen == 2

(* Absent pointer (a nil *string), absent map entry, no error *)
Nil == "<nil>"

(* A file that does not exist *)
NoFile == [absent |-> TRUE]

----------------------------------------------------------------------------
(* Strings.  Hashes are hex strings; the same digest may be spelled in      *)
(* lower or upper case.                                                     *)

HashStrings == {"aa", "AA", "bb", "BB", "cc", "dd", "ee", "ff"}

\* Byte sequences of at most n bytes
Bytes == {0, 1}

ByteSeqs(n) == UNION {[1..k -> Bytes] : k \in 0..n}

RECURSIVE BytesStr(_)
BytesStr(b) ==
    IF b = <<>> THEN ""
    ELSE (IF Head(b) = 0 THEN "0" ELSE "1") \o BytesStr(Tail(b))

\* hex.EncodeToString of the SHA-256 of a byte sequence (lower case).  The
\* digest is modelled as an injective function of the bytes.
Sha256Hex(b) == "e3" \o BytesStr(b)

\* The same digest spelled in upper case
Sha256HexUpper(b) == "E3" \o BytesStr(b)

UpperDigests == {Sha256HexUpper(b) : b \in ByteSeqs(MaxSize + 1)}

\* strings.ToLower restricted to the strings of the model
ToLower(s) ==
    CASE s = "AA" -> "aa"
      [] s = "BB" -> "bb"
      [] s \in UpperDigests ->
           Sha256Hex(CHOOSE b \in ByteSeqs(MaxSize + 1) : Sha256HexUpper(b) = s)
      [] OTHER -> s

\* strings.Compare: byte order, upper case letters sort before lower case
StrOrder == <<"", "AA", "BB", "a", "aa", "b", "bb", "cc", "dd", "ee", "ff",
              "patch/x">>

StrRank(s) == CHOOSE i \in 1..Len(StrOrder) : StrOrder[i] = s

StrLess(s, t) == StrRank(s) < StrRank(t)

\* A comparison of two hashes that tells upper case from lower case
HashEqualExact(hash1, hash2) == hash1 = hash2

\* HashEqual compares two hashes for equality (strings.EqualFold)
HashEqual(hash1, hash2) == ToLower(hash1) = ToLower(hash2)

\* fmt.Sprintf("%05d", instrIdx); instrIdx is the 0-based slice index
Idx5(i) ==
    CASE i = 0 -> "00000"
      [] i = 1 -> "00001"
      [] i = 2 -> "00002"
      [] i = 3 -> "00003"
      [] OTHER -> "0000n"

\* Reading a Go map: the zero value "" when the key is missing
Lookup(m, k) == IF k \in DOMAIN m THEN m[k] ELSE ""

\* m[k] = v on a Go map
MapPut(m, k, v) == [x \in (DOMAIN m) \cup {k} |-> IF x = k THEN v ELSE m[x]]

EmptyMap == [x \in {} |-> Nil]

----------------------------------------------------------------------------
(* Paths *)

\* Install paths of the model that lie below filepath.Join(installDir, "patch"),
\* the staging directory; the decoder accepts them (local, not absolute).
UnderPatchDir == {"patch/x"}

----------------------------------------------------------------------------
(* Manifest *)

\* A time.Time: an instant (in nanoseconds) and the location it is shown in
Time(instant, loc) == [instant |-> instant, loc |-> loc]

\* fileInfo.ModTime(): a time in the local zone
LocalTime(instant) == Time(instant, "Local")

\* time.Time.Equal: the same instant, whatever the locations
TimeEqual(t, u) == t.instant = u.instant

\* The encoding of a time in whole seconds
MarshalTimeSeconds(t) ==
    <<"RFC3339", t.instant - (t.instant % 1000000000),
      IF t.loc = "UTC" THEN "Z" ELSE "+01:00">>

\* time.Time.MarshalJSON: RFC 3339 with nanoseconds and the zone offset
MarshalTime(t) ==
    <<"RFC3339Nano", t.instant, IF t.loc = "UTC" THEN "Z" ELSE "+01:00">>

\* time.Time.UnmarshalJSON: the instant, in UTC or in a zone of the offset
UnmarshalTime(j) == Time(j[2], IF j[3] = "Z" THEN "UTC" ELSE "Fixed")

\* path.Clean restricted to the file names of the model
PathClean(filename) ==
    CASE filename = "a//b" -> "a/b"
      [] filename = "./a" -> "a"
      [] OTHER -> filename

\* (*Manifest).Add: upsert of the entry for a file
ManifestAdd(m, filename, lastChange, checksum) ==
    [m EXCEPT !.Entries =
        MapPut(m.Entries, PathClean(filename),
               [LastChange |-> lastChange, LastChecksum |-> checksum])]

\* (*Manifest).Check: the file is recorded with this time and checksum
ManifestCheck(m, filename, lastChange, checksum) ==
    IF PathClean(filename) \notin DOMAIN m.Entries THEN FALSE
    ELSE LET entry == m.Entries[PathClean(filename)]
         IN  TimeEqual(entry.LastChange, lastChange)
                 /\ entry.LastChecksum = checksum

\* (*Manifest).Get: the stored checksum if the time matches, else not found
ManifestGet(m, filename, lastChange) ==
    IF filename \in DOMAIN m.Entries
          /\ TimeEqual(m.Entries[filename].LastChange, lastChange)
    THEN m.Entries[filename].LastChecksum
    ELSE Nil

\* NewManifest
NewManifest(product) == [Product |-> product, Entries |-> EmptyMap]

----------------------------------------------------------------------------
(* Planner *)

\* The loop body without the test for a removal instruction
MeasureStepNoDeleteTest(rest, instr, m, files) ==
    IF instr.Path \notin DOMAIN files THEN rest
    ELSE LET cs == ManifestGet(m, instr.Path, files[instr.Path].ModTime)
         IN  IF cs # Nil
             THEN [rest EXCEPT !.checksums =
                      IF instr.Path \in DOMAIN rest.checksums
                      THEN rest.checksums
                      ELSE MapPut(rest.checksums, instr.Path, cs)]
             ELSE [rest EXCEPT !.toVerify = <<instr.Path>> \o @]

\* The loop body trusting a manifest entry only if it records NewHash
MeasureStepChecksNewHash(rest, instr, m, files) ==
    IF instr.NewHash = Nil THEN rest
    ELSE IF instr.Path \notin DOMAIN files THEN rest
    ELSE LET cs == ManifestGet(m, instr.Path, files[instr.Path].ModTime)
         IN  IF cs # Nil /\ cs = instr.NewHash
             THEN [rest EXCEPT !.checksums =
                      IF instr.Path \in DOMAIN rest.checksums
                      THEN rest.checksums
                      ELSE MapPut(rest.checksums, instr.Path, cs)]
             ELSE [rest EXCEPT !.toVerify = <<instr.Path>> \o @]

\* One iteration of the loop of DetermineFilesToMeasure for instr; rest is
\* the outcome of the iterations after it (a later write to checksums wins)
MeasureStep(rest, instr, m, files) ==
    IF instr.NewHash = Nil THEN rest
    ELSE IF instr.Path \notin DOMAIN files THEN rest
    ELSE LET cs == ManifestGet(m, instr.Path, files[instr.Path].ModTime)
         IN  IF cs # Nil
             THEN [rest EXCEPT !.checksums =
                      IF instr.Path \in DOMAIN rest.checksums
                      THEN rest.checksums
                      ELSE MapPut(rest.checksums, instr.Path, cs)]
             ELSE [rest EXCEPT !.toVerify = <<instr.Path>> \o @]

RECURSIVE MeasureFrom(_, _, _, _)
\* The loop of DetermineFilesToMeasure from instruction i on
MeasureFrom(instrs, m, files, i) ==
    IF i > Len(instrs) THEN [toVerify |-> <<>>, checksums |-> EmptyMap]
    ELSE MeasureStep(MeasureFrom(instrs, m, files, i + 1), instrs[i], m, files)

DetermineFilesToMeasure(instrs, m, files) == MeasureFrom(instrs, m, files, 1)

\* The DownloadInstr and UpdateInstr of the delta branch
DeltaDownload(instr) ==
    [RemotePath |-> "delta/" \o instr.NewHash \o "_from_" \o instr.OldHash,
     LocalPath  |-> "patch/" \o instr.NewHash \o "_from_" \o instr.OldHash,
     Checksum   |-> instr.DeltaHash,
     Size       |-> instr.DeltaSize]

DeltaUpdate(instr, instrIdx) ==
    [FilePath     |-> instr.Path,
     PatchPath    |-> "patch/" \o instr.NewHash \o "_from_" \o instr.OldHash,
     TempFilename |-> "patch/apply/" \o Idx5(instrIdx) \o "_" \o instr.NewHash,
     IsDelta      |-> TRUE,
     Checksum     |-> instr.NewHash,
     Size         |-> instr.FileSize]

\* The DownloadInstr and UpdateInstr of the full replacement branch
FullDownload(instr) ==
    [RemotePath |-> "full/" \o instr.NewHash,
     LocalPath  |-> "patch/" \o instr.NewHash,
     Checksum   |-> instr.CompressedHash,
     Size       |-> instr.FullReplaceSize]

FullUpdate(instr, instrIdx) ==
    [FilePath     |-> instr.Path,
     PatchPath    |-> "patch/" \o instr.NewHash,
     TempFilename |-> "patch/apply/" \o Idx5(instrIdx) \o "_" \o instr.NewHash,
     IsDelta      |-> FALSE,
     Checksum     |-> instr.NewHash,
     Size         |-> instr.FileSize]

\* The branch conditions removing a path whether or not it is on disk
InstrBranchDeleteAbsent(instr, files, fileChecksums) ==
    LET found == instr.Path \in DOMAIN files
    IN  IF instr.NewHash = Nil \/ instr.CompressedHash = Nil
        THEN "delete"
        ELSE IF found /\ HashEqual(Lookup(fileChecksums, instr.Path), instr.NewHash)
        THEN "uptodate"
        ELSE IF found /\ instr.DeltaHash # Nil
                 /\ HashEqual(Lookup(fileChecksums, instr.Path), instr.OldHash)
        THEN "delta"
        ELSE "full"

\* The branch conditions comparing OldHash case-sensitively
InstrBranchOldHashExact(instr, files, fileChecksums) ==
    LET found == instr.Path \in DOMAIN files
    IN  IF instr.NewHash = Nil \/ instr.CompressedHash = Nil
        THEN IF found THEN "delete" ELSE "skip"
        ELSE IF found /\ HashEqual(Lookup(fileChecksums, instr.Path), instr.NewHash)
        THEN "uptodate"
        ELSE IF found /\ instr.DeltaHash # Nil
                 /\ Lookup(fileChecksums, instr.Path) = instr.OldHash
        THEN "delta"
        ELSE "full"

\* The branch conditions without the test for a file that is up to date
InstrBranchNoUpToDate(instr, files, fileChecksums) ==
    LET found == instr.Path \in DOMAIN files
    IN  IF instr.NewHash = Nil \/ instr.CompressedHash = Nil
        THEN IF found THEN "delete" ELSE "skip"
        ELSE IF found /\ instr.DeltaHash # Nil
                 /\ HashEqual(Lookup(fileChecksums, instr.Path), instr.OldHash)
        THEN "delta"
        ELSE "full"

\* The branch an instruction takes in the loop of DetermineActions
InstrBranch(instr, files, fileChecksums) ==
    LET found == instr.Path \in DOMAIN files
    IN  IF instr.NewHash = Nil \/ instr.CompressedHash = Nil
        THEN IF found THEN "delete" ELSE "skip"
        ELSE IF found /\ HashEqual(Lookup(fileChecksums, instr.Path), instr.NewHash)
        THEN "uptodate"
        ELSE IF found /\ instr.DeltaHash # Nil
                 /\ HashEqual(Lookup(fileChecksums, instr.Path), instr.OldHash)
        THEN "delta"
        ELSE "full"

\* The loop body with downloads keyed by the path of the instruction
ActionStepKeyedByPath(acc, instr, i, files, fileChecksums) ==
    LET branch == InstrBranch(instr, files, fileChecksums)
    IN  CASE branch = "delete" ->
               [acc EXCEPT !.toDelete = Append(@, instr.Path)]
          [] branch = "delta" ->
               [acc EXCEPT
                  !.toDownloadMap = MapPut(@, instr.Path, DeltaDownload(instr)),
                  !.toUpdateMap = MapPut(@, instr.Path, DeltaUpdate(instr, i - 1))]
          [] branch = "full" ->
               [acc EXCEPT
                  !.toDownloadMap = MapPut(@, instr.Path, FullDownload(instr)),
                  !.toUpdateMap = MapPut(@, instr.Path, FullUpdate(instr, i - 1))]
          [] OTHER -> acc

\* The loop body with a removal branch that lacks its continue statement
ActionStepFallsThrough(acc, instr, i, files, fileChecksums) ==
    LET branch == InstrBranch(instr, files, fileChecksums)
    IN  CASE branch = "delete" ->
               [acc EXCEPT
                  !.toDelete = Append(@, instr.Path),
                  !.toDownloadMap = MapPut(@, instr.CompressedHash, FullDownload(instr)),
                  !.toUpdateMap = MapPut(@, instr.Path, FullUpdate(instr, i - 1))]
          [] branch = "delta" ->
               [acc EXCEPT
                  !.toDownloadMap = MapPut(@, instr.DeltaHash, DeltaDownload(instr)),
                  !.toUpdateMap = MapPut(@, instr.Path, DeltaUpdate(instr, i - 1))]
          [] branch = "full" ->
               [acc EXCEPT
                  !.toDownloadMap = MapPut(@, instr.CompressedHash, FullDownload(instr)),
                  !.toUpdateMap = MapPut(@, instr.Path, FullUpdate(instr, i - 1))]
          [] OTHER -> acc

\* One iteration of the loop of DetermineActions, for instruction i (0-based
\* i - 1), from accumulator acc
ActionStep(acc, instr, i, files, fileChecksums) ==
    LET branch == InstrBranch(instr, files, fileChecksums)
    IN  CASE branch = "delete" ->
               [acc EXCEPT !.toDelete = Append(@, instr.Path)]
          [] branch = "delta" ->
               [acc EXCEPT
                  !.toDownloadMap = MapPut(@, instr.DeltaHash, DeltaDownload(instr)),
                  !.toUpdateMap = MapPut(@, instr.Path, DeltaUpdate(instr, i - 1))]
          [] branch = "full" ->
               [acc EXCEPT
                  !.toDownloadMap = MapPut(@, instr.CompressedHash, FullDownload(instr)),
                  !.toUpdateMap = MapPut(@, instr.Path, FullUpdate(instr, i - 1))]
          [] OTHER -> acc

RECURSIVE ActionsLoop(_, _, _, _, _)
\* The loop of DetermineActions over instructions i..Len, from accumulator acc
ActionsLoop(instrs, files, fileChecksums, i, acc) ==
    IF i > Len(instrs) THEN acc
    ELSE ActionsLoop(instrs, files, fileChecksums, i + 1,
                     ActionStep(acc, instrs[i], i, files, fileChecksums))

RECURSIVE SortedKeys(_)
\* The keys of a map in strings.Compare order
SortedKeys(S) ==
    IF S = {} THEN <<>>
    ELSE LET k == CHOOSE x \in S : \A y \in S : x = y \/ StrLess(x, y)
         IN  <<k>> \o SortedKeys(S \ {k})

\* mapToSortedSlice: the values of the map ordered by key
mapToSortedSlice(m) ==
    LET keys == SortedKeys(DOMAIN m)
    IN  [i \in 1..Len(keys) |-> m[keys[i]]]

RECURSIVE InsertSorted(_, _)
InsertSorted(s, x) ==
    IF s = <<>> THEN <<x>>
    ELSE IF StrLess(x, Head(s)) THEN <<x>> \o s
    ELSE <<Head(s)>> \o InsertSorted(Tail(s), x)

RECURSIVE SortStrings(_)
\* sort.Slice(toDelete, strings.Compare(...) < 0)
SortStrings(s) ==
    IF s = <<>> THEN <<>> ELSE InsertSorted(SortStrings(Tail(s)), Head(s))

DetermineActions(instrs, m, files, fileChecksums) ==
    LET acc == ActionsLoop(instrs, files, fileChecksums, 1,
                   [toDownloadMap |-> EmptyMap, toUpdateMap |-> EmptyMap,
                    toDelete |-> <<>>])
    IN  [ToDownload |-> mapToSortedSlice(acc.toDownloadMap),
         ToUpdate   |-> mapToSortedSlice(acc.toUpdateMap),
         ToDelete   |-> SortStrings(acc.toDelete)]

NoActions == [ToDownload |-> <<>>, ToUpdate |-> <<>>, ToDelete |-> <<>>]

----------------------------------------------------------------------------
(* Inputs *)

\* The hash fields an instruction of the model can carry
InstrTemplates ==
    { \* delete instruction
      [OldHash |-> "AA", NewHash |-> Nil, CompressedHash |-> Nil,
       DeltaHash |-> Nil, FileSize |-> 0, FullReplaceSize |-> 0, DeltaSize |-> 0],
      \* corrupted record: NewHash without CompressedHash
      [OldHash |-> "AA", NewHash |-> "bb", CompressedHash |-> Nil,
       DeltaHash |-> Nil, FileSize |-> 30, FullReplaceSize |-> 0, DeltaSize |-> 0],
      \* full replacement only
      [OldHash |-> "AA", NewHash |-> "bb", CompressedHash |-> "cc",
       DeltaHash |-> Nil, FileSize |-> 30, FullReplaceSize |-> 20, DeltaSize |-> 0],
      \* delta available
      [OldHash |-> "AA", NewHash |-> "bb", CompressedHash |-> "cc",
       DeltaHash |-> "dd", FileSize |-> 30, FullReplaceSize |-> 20, DeltaSize |-> 5],
      \* another file content, full replacement only
      [OldHash |-> "aa", NewHash |-> "ee", CompressedHash |-> "ff",
       DeltaHash |-> Nil, FileSize |-> 0, FullReplaceSize |-> 21, DeltaSize |-> 0] }

\* The planner is also given a record that names the new content bb with
\* another CompressedHash than the other records, the one they give for ee
PlanTemplates ==
    InstrTemplates \cup
    {[OldHash |-> "aa", NewHash |-> "bb", CompressedHash |-> "ff",
      DeltaHash |-> Nil, FileSize |-> 30, FullReplaceSize |-> 21, DeltaSize |-> 0]}

MkInstr(p, t) ==
    [Path |-> p, OldHash |-> t.OldHash, NewHash |-> t.NewHash,
     CompressedHash |-> t.CompressedHash, DeltaHash |-> t.DeltaHash,
     FileSize |-> t.FileSize, FullReplaceSize |-> t.FullReplaceSize,
     DeltaSize |-> t.DeltaSize]

InstrDomain(paths, templates) == {MkInstr(p, t) : p \in paths, t \in templates}

\* Instruction lists of at most MaxInstr entries, duplicates included
InstrLists(paths, templates) ==
    UNION {[1..n -> InstrDomain(paths, templates)] : n \in 0..MaxInstr}

\* A verify phase without the check of filesSeen
NoDupPathsUnchecked(instrs) == TRUE

\* The loop over filesSeen of runVerifyPhase finds no path twice
NoDupPaths(instrs) ==
    \A i, j \in 1..Len(instrs) : instrs[i].Path = instrs[j].Path => i = j

\* All maps from a subset of keys to the values
Maps(keys, values) == UNION {[S -> values] : S \in SUBSET keys}

PlanPaths == {"a", "b"}

Product == "renx"

----------------------------------------------------------------------------
(* The downloader is idle outside SpecDL *)

\* The phases of the progress tracker
Phases == {"verify", "download", "apply"}

\* A ProgressPhase before anything was recorded
NewProgressPhase ==
    [processing |-> 0, completed |-> 0, errors |-> 0, needed |-> 0,
     done |-> FALSE, started |-> FALSE]

\* NewProgress, and the progress goroutine of RunPatcher before its launch:
\* ticks and finals count the calls of ProgressFunc from the ticker and
\* from ctx.Done(), delivered is the value given to the call for ctx.Done(),
\* which is the last call the goroutine makes, exited says that RunPatcher has
\* returned to its caller
NewProgress ==
    [phase |-> [ph \in Phases |-> NewProgressPhase],
     emitter |-> "off", ticks |-> 0, finals |-> 0,
     delivered |-> [ph \in Phases |-> NewProgressPhase], exited |-> FALSE]

\* (*ProgressTracker).Current: a copy of the counters (durations left out)
Current(p) == p.phase

\* (*ProgressTracker).PhaseStarted
PhaseStarted(p, ph) == [p EXCEPT !.phase[ph].started = TRUE]

\* A tracker that drops the needed value
PhaseSetNeededDropped(p, ph, needed) == p

\* (*ProgressTracker).PhaseSetNeeded
PhaseSetNeeded(p, ph, needed) == [p EXCEPT !.phase[ph].needed = needed]

\* (*ProgressTracker).PhaseItemsSkipped
PhaseItemsSkipped(p, ph, count) ==
    [p EXCEPT !.phase[ph].completed = @ + count]

\* (*ProgressTracker).PhaseItemStarted
PhaseItemStarted(p, ph) == [p EXCEPT !.phase[ph].processing = @ + 1]

\* PhaseItemDone that counts a cancellation as an error
PhaseItemDoneCountsCancel(p, ph, err) ==
    [p EXCEPT !.phase[ph].processing = @ - 1,
              !.phase[ph].completed = IF err = "ok" THEN @ + 1 ELSE @,
              !.phase[ph].errors = IF err # "ok" THEN @ + 1 ELSE @]

\* (*ProgressTracker).PhaseItemDone: err is "ok" for nil, "canceled" for an
\* error that is context.Canceled, "err" for any other error
PhaseItemDone(p, ph, err) ==
    [p EXCEPT !.phase[ph].processing = @ - 1,
              !.phase[ph].completed = IF err = "ok" THEN @ + 1 ELSE @,
              !.phase[ph].errors =
                  IF err # "ok" /\ err # "canceled" THEN @ + 1 ELSE @]

\* (*ProgressTracker).PhaseDone
PhaseDone(p, ph) == [p EXCEPT !.phase[ph].done = TRUE]

DLIdle == [pc |-> "off"]

\* The orchestrator's variables while it is not running
RunIdle ==
    /\ installFiles = [p \in {"a", "patch/x"} |-> NoFile]
    /\ manifestFile = NoFile
    /\ patchFiles = {}
    /\ tempFiles = EmptyMap
    /\ stagingRemoved = FALSE
    /\ manifestWrites = 0
    /\ renamed = <<>>
    /\ deleted = <<>>
    /\ clock = 0
    /\ verifyW = <<>>
    /\ downloadW = <<>>
    /\ applyW = <<>>
    /\ applyExit = <<>>
    /\ groupErr = Nil
    /\ extCancelled = FALSE
    /\ result = Nil
    /\ failedAt = Nil
    /\ numWorkers = 1
    /\ man2 = NoFile
    /\ progress = NewProgress

----------------------------------------------------------------------------
(* The instruction decoder (DecodeInstructions) *)

\* A Go string holding a path is a sequence of these characters: a letter,
\* the colon, the dot and the two slashes
PathChars == {"a", ":", ".", "/", "\\"}

GoStrings(n) == UNION {[1..k -> PathChars] : k \in 0..n}

\* runtime.GOOS of the build
GOOSes == {"linux", "windows"}

\* filepath.Separator
Separator(os) == IF os = "windows" THEN "\\" ELSE "/"

\* os.IsPathSeparator
IsPathSeparator(os, c) == c = "/" \/ (os = "windows" /\ c = "\\")

\* strings.ReplaceAll(s, old, new) for one-character old and new
ReplaceAll(s, old, new) ==
    [i \in 1..Len(s) |-> IF s[i] = old THEN new ELSE s[i]]

\* filepath.VolumeName: a drive letter and a colon on Windows, nothing
\* elsewhere. (A UNC volume begins with a separator; such a path is refused
\* by IsLocal like any other path that begins with one.)
volumeNameLen(os, s) ==
    IF os = "windows" /\ Len(s) >= 2 /\ s[1] = "a" /\ s[2] = ":" THEN 2 ELSE 0

RECURSIVE Components(_, _)
\* The path elements of s, the empty ones between two separators included
Components(os, s) ==
    IF s = <<>> THEN << <<>> >>
    ELSE LET rest == Components(os, Tail(s))
         IN  IF IsPathSeparator(os, Head(s))
             THEN << <<>> >> \o rest
             ELSE << <<Head(s)>> \o Head(rest) >> \o Tail(rest)

DotDot == <<".", ".">>

RECURSIVE CleanComponents(_, _, _)
\* The loop of filepath.Clean: drop empty elements and ".", let ".." remove
\* the element before it, drop ".." at the root, keep a leading ".."
CleanComponents(comps, rooted, out) ==
    IF comps = <<>> THEN out
    ELSE LET c == Head(comps)
             more == Tail(comps)
         IN  IF c = <<>> \/ c = <<".">>
             THEN CleanComponents(more, rooted, out)
             ELSE IF c = DotDot
             THEN IF out # <<>> /\ out[Len(out)] # DotDot
                  THEN CleanComponents(more, rooted, SubSeq(out, 1, Len(out) - 1))
                  ELSE IF rooted
                  THEN CleanComponents(more, rooted, out)
                  ELSE CleanComponents(more, rooted, Append(out, DotDot))
             ELSE CleanComponents(more, rooted, Append(out, c))

RECURSIVE JoinComponents(_, _)
JoinComponents(comps, sep) ==
    IF comps = <<>> THEN <<>>
    ELSE IF Len(comps) = 1 THEN Head(comps)
    ELSE Head(comps) \o <<sep>> \o JoinComponents(Tail(comps), sep)

\* filepath.Clean
Clean(os, s) ==
    LET vl == volumeNameLen(os, s)
        vol == SubSeq(s, 1, vl)
        rest == SubSeq(s, vl + 1, Len(s))
        rooted == rest # <<>> /\ IsPathSeparator(os, rest[1])
        out == CleanComponents(Components(os, rest), rooted, <<>>)
        body == (IF rooted THEN <<Separator(os)>> ELSE <<>>)
                    \o JoinComponents(out, Separator(os))
    IN  IF body = <<>> THEN vol \o <<".">> ELSE vol \o body

\* filepath.IsAbs
IsAbs(os, path) ==
    IF os = "windows"
    THEN /\ volumeNameLen(os, path) = 2
         /\ Len(path) > 2
         /\ IsPathSeparator(os, path[3])
    ELSE path # <<>> /\ path[1] = "/"

\* filepath.IsLocal. On Windows a path holding a colon is never local. (The
\* reserved device names of Windows cannot be written with PathChars.)
IsLocal(os, path) ==
    LET cleaned == Clean(os, path)
        first == Head(Components(os, cleaned))
    IN  /\ path # <<>>
        /\ ~IsAbs(os, path)
        /\ os = "windows" =>
              /\ ~IsPathSeparator(os, path[1])
              /\ \A i \in 1..Len(path) : path[i] # ":"
        /\ first # DotDot

\* The normalized path of a record
NormalizePath(os, rawPath) ==
    Clean(os, ReplaceAll(rawPath, "\\", Separator(os)))

\* The Instruction made from a rawInstruction
MkInstruction(os, ri) ==
    [Path |-> NormalizePath(os, ri.Path), OldHash |-> ri.OldHash,
     NewHash |-> ri.NewHash, CompressedHash |-> ri.CompressedHash,
     DeltaHash |-> ri.DeltaHash, FullReplaceSize |-> ri.FullReplaceSize,
     DeltaSize |-> ri.DeltaSize]

RECURSIVE DecodeLoop(_, _, _)
\* The loop over rawInstructions: the first offending record ends it
DecodeLoop(os, raws, acc) ==
    IF raws = <<>> THEN [instructions |-> acc, err |-> Nil]
    ELSE LET ri == Head(raws)
             path == NormalizePath(os, ri.Path)
         IN  IF IsAbs(os, path)
             THEN [instructions |-> <<>>, err |-> "absolute path"]
             ELSE IF ~IsLocal(os, path)
             THEN [instructions |-> <<>>, err |-> "non-local path"]
             ELSE IF ri.HasDelta /\ ri.DeltaHash = Nil
             THEN [instructions |-> <<>>, err |-> "HasDelta set but no DeltaHash"]
             ELSE IF ~ri.HasDelta /\ ri.DeltaHash # Nil
             THEN [instructions |-> <<>>, err |-> "HasDelta unset but contains a DeltaHash"]
             ELSE DecodeLoop(os, Tail(raws), Append(acc, MkInstruction(os, ri)))

\* A decoder that refuses a payload with two records of the same path
DecodeInstructionsRejectsDuplicates(os, data) ==
    LET r == DecodeLoop(os, data.records, <<>>)
    IN  IF ~data.hashMatches \/ ~data.wellFormed \/ ~NoDupPaths(r.instructions)
        THEN [instructions |-> <<>>, err |-> "rejected"]
        ELSE r

\* DecodeInstructions(jsonData, instructionsHash): data.hashMatches is the
\* outcome of the checksum comparison, data.wellFormed that of json.Unmarshal
DecodeInstructions(os, data) ==
    IF ~data.hashMatches THEN [instructions |-> <<>>, err |-> "hash mismatch"]
    ELSE IF ~data.wellFormed
    THEN [instructions |-> <<>>, err |-> "couldn't be decoded"]
    ELSE DecodeLoop(os, data.records, <<>>)

NotDecoded == [instructions |-> <<>>, err |-> Nil]

\* The decoder's variables while it is not used
DecodeIdle ==
    /\ goos = "linux"
    /\ jsonData = [hashMatches |-> TRUE, wellFormed |-> TRUE, records |-> <<>>]
    /\ decoded = NotDecoded

----------------------------------------------------------------------------
(* SpecPlan: the planner functions applied to bounded inputs *)

InitPlan ==
    /\ instructions \in InstrLists(PlanPaths, PlanTemplates)
    /\ existingFiles \in Maps(PlanPaths, [ModTime : {LocalTime(1), LocalTime(2)}])
    /\ \E entries \in Maps(PlanPaths, [LastChange : {Time(1, "Fixed")},
                                         LastChecksum : {"aa", "bb"}]) :
           manifest = [Product |-> Product, Entries |-> entries]
    /\ toMeasure = <<>>
    /\ manifestChecksums = EmptyMap
    /\ checksums = EmptyMap
    /\ actions = NoActions
    /\ pc = "plan_start"
    /\ dl = DLIdle
    /\ RunIdle
    /\ DecodeIdle

\* A call of DetermineFilesToMeasure
CallDetermineFilesToMeasure ==
    /\ pc = "plan_start"
    /\ LET r == DetermineFilesToMeasure(instructions, manifest, existingFiles)
       IN  /\ toMeasure' = r.toVerify
           /\ manifestChecksums' = r.checksums
    /\ pc' = "plan_measured"
    /\ UNCHANGED <<instructions, manifest, existingFiles, checksums, actions,
                   diskVars, workVars, extCancelled, retVars, numWorkers, decVars, dl, man2, progress>>

\* A call of DetermineActions with some checksum map
CallDetermineActions ==
    /\ pc = "plan_measured"
    /\ \E cs \in Maps(PlanPaths, {"aa", "bb", "BB"}) :
          /\ checksums' = cs
          /\ actions' = DetermineActions(instructions, manifest, existingFiles, cs)
    /\ pc' = "plan_done"
    /\ UNCHANGED <<instructions, manifest, existingFiles, toMeasure,
                   manifestChecksums, diskVars, workVars, extCancelled, retVars,
                   numWorkers, decVars, dl, man2, progress>>

NextPlan == CallDetermineFilesToMeasure \/ CallDetermineActions

SpecPlan == InitPlan /\ [][NextPlan]_vars

----------------------------------------------------------------------------
(* SpecRun: one call of RunPatcher *)

RunPaths == {"a", "patch/x"}

\* The instruction kinds a run of the model is given
RunTemplates ==
    {t \in InstrTemplates :
        t.NewHash = Nil \/ (t.NewHash = "bb" /\ t.CompressedHash # Nil)}

\* A file of the install directory: the digest of its bytes and its mtime
File(content, modTime) == [content |-> content, modTime |-> LocalTime(modTime)]

\* ScanFiles: the files below the install directory with their mtime
ScanFiles(files) ==
    [p \in {q \in DOMAIN files : files[q] # NoFile} |-> [ModTime |-> files[p].modTime]]

\* HashReader over a file of the install directory (lower case hex)
HashOfFile(files, p) == files[p].content

\* json.MarshalIndent of a Manifest: times are written as RFC 3339 strings
EncodeManifest(m) ==
    [Product |-> m.Product,
     Entries |-> [p \in DOMAIN m.Entries |->
                    [last_change |-> MarshalTime(m.Entries[p].LastChange),
                     last_checksum |-> m.Entries[p].LastChecksum]]]

\* json.Unmarshal of ta-manifest.json
DecodeManifest(f) ==
    [Product |-> f.Product,
     Entries |-> [p \in DOMAIN f.Entries |->
                    [LastChange |-> UnmarshalTime(f.Entries[p].last_change),
                     LastChecksum |-> f.Entries[p].last_checksum]]]

\* The manifest an earlier successful run left for the files on disk
ManifestOf(files) ==
    [Product |-> Product,
     Entries |-> [p \in {q \in DOMAIN files : files[q] # NoFile} |->
                    [LastChange |-> files[p].modTime,
                     LastChecksum |-> files[p].content]]]

\* The error of ReadManifest for a manifest of another product
WrongProduct == [error |-> "wrong product"]

\* ReadManifest without the product test
ReadManifestAnyProduct(f, product) ==
    IF f = NoFile THEN NewManifest(product)
    ELSE DecodeManifest(f)

\* ReadManifest: an empty manifest if there is no file, else the decoded
\* file if it is bound to the product
ReadManifest(f, product) ==
    IF f = NoFile THEN NewManifest(product)
    ELSE IF DecodeManifest(f).Product # product THEN WrongProduct
    ELSE DecodeManifest(f)

\* The products a manifest on disk can be bound to
Products == {Product, "other"}

\* The context handed to the workers of the running errgroup is done
CtxDone == extCancelled \/ groupErr # Nil

Idle(n) == [i \in 1..n |-> "idle"]

Finished(w) == \A i \in 1..Len(w) : w[i] \in {"ok", "err", "canceled"}

Active(w) == Cardinality({i \in 1..Len(w) : w[i] \in {"running", "doomed"}})

\* g.Go without g.SetLimit: the next input is handed to a worker at once
CanLaunchUnlimited(w, i) ==
    /\ i \in 1..Len(w)
    /\ w[i] = "idle"
    /\ \A j \in 1..(i - 1) : w[j] # "idle"

\* g.Go: the next input is handed to a worker once a slot is free
CanLaunch(w, i) ==
    /\ i \in 1..Len(w)
    /\ w[i] = "idle"
    /\ \A j \in 1..(i - 1) : w[j] # "idle"
    /\ Active(w) < numWorkers

\* A group that keeps the last error returned instead of the first
GroupErrLastWins(outcome) ==
    IF outcome # "ok" THEN outcome ELSE groupErr

\* The function passed to g.Go returned: the first error cancels the group
GroupErrAfter(outcome) ==
    IF groupErr = Nil /\ outcome # "ok" THEN outcome ELSE groupErr

InitRun ==
    /\ instructions \in InstrLists(RunPaths, RunTemplates)
    /\ installFiles \in [RunPaths -> {NoFile, File("aa", 1), File("bb", 1)}]
    /\ manifestFile \in {NoFile} \cup
           {EncodeManifest([ManifestOf(installFiles) EXCEPT !.Product = p]) :
               p \in Products}
    /\ numWorkers \in 1..2
    /\ manifest = NoFile
    /\ existingFiles = EmptyMap
    /\ toMeasure = <<>>
    /\ manifestChecksums = EmptyMap
    /\ checksums = EmptyMap
    /\ actions = NoActions
    /\ patchFiles = {}
    /\ tempFiles = EmptyMap
    /\ stagingRemoved = FALSE
    /\ manifestWrites = 0
    /\ renamed = <<>>
    /\ deleted = <<>>
    /\ clock = 1
    /\ verifyW = <<>>
    /\ downloadW = <<>>
    /\ applyW = <<>>
    /\ applyExit = <<>>
    /\ groupErr = Nil
    /\ extCancelled = FALSE
    /\ result = Nil
    /\ failedAt = Nil
    /\ pc = "start"
    /\ dl = DLIdle
    /\ man2 = NoFile
    /\ progress = NewProgress
    /\ DecodeIdle

\* RunPatcher returns err from its current position
Return(err) ==
    /\ result' = err
    /\ failedAt' = IF err = "ok" THEN Nil ELSE pc
    /\ pc' = "returned"

\* The context given to RunPatcher is cancelled (os.Interrupt)
ExternalCancel ==
    /\ pc \in {"start", "verify_begin", "verify", "download_begin", "download",
               "apply_begin", "apply", "rename", "delete", "apply_end",
               "cleanup", "write"}
    /\ ~extCancelled
    /\ extCancelled' = TRUE
    /\ UNCHANGED <<planVars, diskVars, workVars, pc, retVars, numWorkers, decVars, dl, man2, progress>>

\* RunPatcher up to the launch of the progress goroutine
RunPatcherBegin ==
    /\ pc = "start"
    /\ \/ \* NewXDelta failed, the manifest could not be read or decoded, or
          \* MkdirAll failed
          /\ Return("err")
          /\ UNCHANGED manifest
       \/ LET m == ReadManifest(manifestFile, Product)
          IN  IF m = WrongProduct
              THEN /\ Return("wrong product")
                   /\ UNCHANGED manifest
              ELSE /\ manifest' = m
                   /\ pc' = "verify_begin"
                   /\ UNCHANGED retVars
    /\ UNCHANGED <<instructions, existingFiles, toMeasure, manifestChecksums,
                   checksums, actions, diskVars, workVars, extCancelled,
                   numWorkers, decVars, dl, man2>>
    /\ progress' = IF pc' = "verify_begin"
                   THEN [progress EXCEPT !.emitter = "running"]
                   ELSE [progress EXCEPT !.exited = TRUE]

\* runVerifyPhase up to the call of DoInParallelWithResult
VerifyBegin ==
    /\ pc = "verify_begin"
    /\ IF ~NoDupPaths(instructions)
       THEN /\ Return("err")
            /\ UNCHANGED <<existingFiles, toMeasure, manifestChecksums, verifyW>>
       ELSE \/ \* ScanFiles failed
               /\ Return("err")
               /\ UNCHANGED <<existingFiles, toMeasure, manifestChecksums, verifyW>>
            \/ LET files == ScanFiles(installFiles)
                   r == DetermineFilesToMeasure(instructions, manifest, files)
               IN  /\ existingFiles' = files
                   /\ toMeasure' = r.toVerify
                   /\ manifestChecksums' = r.checksums
                   /\ verifyW' = Idle(Len(r.toVerify))
                   /\ pc' = "verify"
                   /\ UNCHANGED retVars
    /\ UNCHANGED <<instructions, manifest, checksums, actions, diskVars,
                   downloadW, applyW, applyExit, groupErr, extCancelled, numWorkers, decVars, dl, man2>>
    /\ progress' =
          IF pc' = "verify"
          THEN LET known == Cardinality(DOMAIN manifestChecksums')
               IN  PhaseItemsSkipped(
                       PhaseSetNeeded(PhaseStarted(progress, "verify"), "verify",
                                      Len(toMeasure') + known),
                       "verify", known)
          ELSE PhaseStarted(progress, "verify")

\* A verify worker is started for toMeasure[i]
VerifyLaunch(i) ==
    /\ pc = "verify"
    /\ CanLaunch(verifyW, i)
    /\ verifyW' = [verifyW EXCEPT ![i] = IF CtxDone THEN "doomed" ELSE "running"]
    /\ UNCHANGED <<planVars, diskVars, downloadW, applyW, applyExit, groupErr, pc,
                   extCancelled, retVars, numWorkers, decVars, dl, man2>>
    /\ progress' = PhaseItemStarted(progress, "verify")

\* The verify worker of toMeasure[i] returns: open, stat, HashReader
VerifyFinish(i) ==
    /\ pc = "verify"
    /\ i \in 1..Len(verifyW)
    /\ verifyW[i] \in {"running", "doomed"}
    /\ \E outcome \in {"ok", "err", "canceled"} :
          /\ outcome = "ok" => verifyW[i] = "running"
          /\ outcome = "canceled" => CtxDone
          /\ verifyW' = [verifyW EXCEPT ![i] = outcome]
          /\ groupErr' = GroupErrAfter(outcome)
    /\ UNCHANGED <<planVars, diskVars, downloadW, applyW, applyExit, pc, extCancelled,
                   retVars, numWorkers, decVars, dl, man2>>
    /\ progress' = PhaseItemDone(progress, "verify", verifyW'[i])

RECURSIVE AddMeasured(_, _, _, _)
\* The loop over measuredFiles at the end of runVerifyPhase
AddMeasured(acc, names, files, i) ==
    IF i > Len(names) THEN acc
    ELSE LET cs == HashOfFile(files, names[i])
         IN  AddMeasured(
                 [checksums |-> MapPut(acc.checksums, names[i], cs),
                  manifest  |-> ManifestAdd(acc.manifest, names[i],
                                            files[names[i]].modTime, cs)],
                 names, files, i + 1)

\* VerifyEnd without the check of the error of DoInParallelWithResult
VerifyEndIgnoresErr ==
    /\ pc = "verify"
    /\ Finished(verifyW)
    /\ LET m == AddMeasured([checksums |-> manifestChecksums,
                             manifest |-> manifest],
                            toMeasure, installFiles, 1)
       IN  /\ checksums' = m.checksums
           /\ manifest' = m.manifest
           /\ actions' = DetermineActions(instructions, m.manifest,
                                          existingFiles, m.checksums)
           /\ groupErr' = Nil
           /\ pc' = "download_begin"
           /\ UNCHANGED retVars
    /\ UNCHANGED <<instructions, existingFiles, toMeasure, manifestChecksums,
                   diskVars, verifyW, downloadW, applyW, applyExit, extCancelled,
                   numWorkers, decVars, dl, man2>>
    /\ progress' = PhaseSetNeeded(
                PhaseSetNeeded(PhaseDone(progress, "verify"),
                               "download", Len(actions'.ToDownload)),
                "apply", Len(actions'.ToUpdate))

\* VerifyEnd without the wait for the workers (no g.Wait)
VerifyEndNoWait ==
    /\ pc = "verify"
    /\ IF groupErr # Nil
       THEN /\ Return(groupErr)
            /\ UNCHANGED <<checksums, manifest, actions, groupErr>>
       ELSE LET m == AddMeasured([checksums |-> manifestChecksums,
                                  manifest |-> manifest],
                                 toMeasure, installFiles, 1)
            IN  /\ checksums' = m.checksums
                /\ manifest' = m.manifest
                /\ actions' = DetermineActions(instructions, m.manifest,
                                               existingFiles, m.checksums)
                /\ groupErr' = Nil
                /\ pc' = "download_begin"
                /\ UNCHANGED retVars
    /\ UNCHANGED <<instructions, existingFiles, toMeasure, manifestChecksums,
                   diskVars, verifyW, downloadW, applyW, applyExit, extCancelled,
                   numWorkers, decVars, dl, man2>>
    /\ progress' = IF groupErr # Nil THEN progress
                   ELSE PhaseSetNeeded(
                             PhaseSetNeeded(PhaseDone(progress, "verify"),
                                            "download", Len(actions'.ToDownload)),
                             "apply", Len(actions'.ToUpdate))

\* runVerifyPhase after DoInParallelWithResult returned
VerifyEnd ==
    /\ pc = "verify"
    /\ Finished(verifyW)
    /\ IF groupErr # Nil
       THEN /\ Return(groupErr)
            /\ UNCHANGED <<checksums, manifest, actions, groupErr>>
       ELSE LET m == AddMeasured([checksums |-> manifestChecksums,
                                  manifest |-> manifest],
                                 toMeasure, installFiles, 1)
            IN  /\ checksums' = m.checksums
                /\ manifest' = m.manifest
                /\ actions' = DetermineActions(instructions, m.manifest,
                                               existingFiles, m.checksums)
                /\ groupErr' = Nil
                /\ pc' = "download_begin"
                /\ UNCHANGED retVars
    /\ UNCHANGED <<instructions, existingFiles, toMeasure, manifestChecksums,
                   diskVars, verifyW, downloadW, applyW, applyExit, extCancelled,
                   numWorkers, decVars, dl, man2>>
    /\ progress' = IF groupErr # Nil THEN progress
                   ELSE PhaseSetNeeded(
                             PhaseSetNeeded(PhaseDone(progress, "verify"),
                                            "download", Len(actions'.ToDownload)),
                             "apply", Len(actions'.ToUpdate))

\* runDownloadPhase up to the call of DoInParallel
DownloadBegin ==
    /\ pc = "download_begin"
    /\ downloadW' = Idle(Len(actions.ToDownload))
    /\ pc' = "download"
    /\ UNCHANGED <<planVars, diskVars, verifyW, applyW, applyExit, groupErr, extCancelled,
                   retVars, numWorkers, decVars, dl, man2>>
    /\ progress' = PhaseStarted(progress, "download")

\* A download worker is started for ToDownload[i]
DownloadLaunch(i) ==
    /\ pc = "download"
    /\ CanLaunch(downloadW, i)
    /\ downloadW' = [downloadW EXCEPT ![i] = IF CtxDone THEN "doomed" ELSE "running"]
    /\ UNCHANGED <<planVars, diskVars, verifyW, applyW, applyExit, groupErr, pc,
                   extCancelled, retVars, numWorkers, decVars, dl, man2>>
    /\ progress' = PhaseItemStarted(progress, "download")

\* The DownloadFile call of ToDownload[i] returns.  It succeeds under a done
\* context too when a complete patch file is left from an earlier run.
DownloadFinish(i) ==
    /\ pc = "download"
    /\ i \in 1..Len(downloadW)
    /\ downloadW[i] \in {"running", "doomed"}
    /\ \E outcome \in {"ok", "err", "canceled"} :
          /\ outcome = "canceled" => CtxDone
          /\ downloadW' = [downloadW EXCEPT ![i] = outcome]
          /\ groupErr' = GroupErrAfter(outcome)
          /\ patchFiles' = IF outcome = "ok"
                           THEN patchFiles \cup {actions.ToDownload[i].LocalPath}
                           ELSE patchFiles
    /\ UNCHANGED <<planVars, installFiles, manifestFile, tempFiles,
                   stagingRemoved, manifestWrites, renamed, deleted, clock,
                   verifyW, applyW, applyExit, pc, extCancelled, retVars, numWorkers, decVars, dl, man2>>
    /\ progress' = PhaseItemDone(progress, "download", downloadW'[i])

\* DownloadEnd without the check of the error of DoInParallel
DownloadEndIgnoresErr ==
    /\ pc = "download"
    /\ Finished(downloadW)
    /\ pc' = "apply_begin"
    /\ groupErr' = Nil
    /\ UNCHANGED <<planVars, diskVars, verifyW, downloadW, applyW, applyExit,
                   retVars, extCancelled, numWorkers, decVars, dl, man2>>
    /\ progress' = PhaseDone(progress, "download")

\* runDownloadPhase after DoInParallel returned
DownloadEnd ==
    /\ pc = "download"
    /\ Finished(downloadW)
    /\ IF groupErr # Nil
       THEN Return(groupErr)
       ELSE /\ pc' = "apply_begin"
            /\ UNCHANGED retVars
    /\ UNCHANGED <<planVars, diskVars, workVars, extCancelled, numWorkers, decVars, dl, man2>>
    /\ progress' = IF groupErr # Nil THEN progress
                   ELSE PhaseDone(progress, "download")

\* runPatchPhase up to the call of DoInParallel
ApplyBegin ==
    /\ pc = "apply_begin"
    /\ applyW' = Idle(Len(actions.ToUpdate))
    /\ applyExit' = [i \in 1..Len(actions.ToUpdate) |-> "none"]
    /\ pc' = "apply"
    /\ UNCHANGED <<planVars, diskVars, verifyW, downloadW, groupErr,
                   extCancelled, retVars, numWorkers, decVars, dl, man2>>
    /\ progress' = PhaseStarted(progress, "apply")

\* An apply worker is started for ToUpdate[i]
ApplyLaunch(i) ==
    /\ pc = "apply"
    /\ CanLaunch(applyW, i)
    /\ applyW' = [applyW EXCEPT ![i] = IF CtxDone THEN "doomed" ELSE "running"]
    /\ UNCHANGED <<planVars, diskVars, verifyW, downloadW, applyExit, groupErr, pc,
                   extCancelled, retVars, numWorkers, decVars, dl, man2>>
    /\ progress' = PhaseItemStarted(progress, "apply")

\* ApplyPatch without the comparison of the checksum
ApplyPatchOkNoHash(exitZero, writtenHash, expectedChecksum) == exitZero

\* XDelta.ApplyPatch returns nil: the program exited with code zero and the
\* bytes teed into newPath hash to expectedChecksum
ApplyPatchOk(exitZero, writtenHash, expectedChecksum) ==
    exitZero /\ HashEqual(writtenHash, expectedChecksum)

\* The ApplyPatch call of ToUpdate[i] returns.  The external program writes
\* some bytes to the staged file and exits; a worker started under a done
\* context fails in cmd.Start before the staged file is created.
ApplyFinish(i) ==
    /\ pc = "apply"
    /\ i \in 1..Len(applyW)
    /\ applyW[i] \in {"running", "doomed"}
    /\ LET ui == actions.ToUpdate[i]
       IN  \/ /\ applyW[i] = "doomed"
              /\ \E outcome \in {"err", "canceled"} :
                    /\ applyW' = [applyW EXCEPT ![i] = outcome]
                    /\ groupErr' = GroupErrAfter(outcome)
              /\ UNCHANGED <<tempFiles, clock, applyExit>>
           \/ /\ applyW[i] = "running"
              /\ \E exitZero \in BOOLEAN, written \in {ToLower(ui.Checksum), "00"} :
                    LET readable == /\ ui.PatchPath \in patchFiles
                                    /\ ui.IsDelta => installFiles[ui.FilePath] # NoFile
                        outcome == IF ApplyPatchOk(exitZero /\ readable, written, ui.Checksum)
                                   THEN "ok" ELSE "err"
                    IN  /\ applyW' = [applyW EXCEPT ![i] = outcome]
                        /\ applyExit' = [applyExit EXCEPT ![i] =
                                            IF exitZero /\ readable THEN "0" ELSE "1"]
                        /\ groupErr' = GroupErrAfter(outcome)
                        /\ tempFiles' = MapPut(tempFiles, ui.TempFilename,
                                               File(written, clock + 1))
                        /\ clock' = clock + 1
    /\ UNCHANGED <<planVars, installFiles, manifestFile, patchFiles,
                   stagingRemoved, manifestWrites, renamed, deleted,
                   verifyW, downloadW, pc, extCancelled, retVars, numWorkers, decVars, dl, man2>>
    /\ progress' = PhaseItemDone(progress, "apply", applyW'[i])

\* ApplyWait without the check of the error of DoInParallel
ApplyWaitIgnoresErr ==
    /\ pc = "apply"
    /\ Finished(applyW)
    /\ pc' = "rename"
    /\ UNCHANGED <<planVars, diskVars, workVars, retVars, extCancelled,
                   numWorkers, decVars, dl, man2, progress>>

\* ApplyWait that removes the staging directory when the phase failed
ApplyWaitCleansUp ==
    /\ pc = "apply"
    /\ Finished(applyW)
    /\ IF groupErr # Nil
       THEN /\ Return(groupErr)
            /\ patchFiles' = {}
            /\ tempFiles' = EmptyMap
            /\ stagingRemoved' = TRUE
       ELSE /\ pc' = "rename"
            /\ UNCHANGED <<retVars, patchFiles, tempFiles, stagingRemoved>>
    /\ UNCHANGED <<planVars, installFiles, manifestFile, manifestWrites, renamed,
                   deleted, clock, workVars, extCancelled, numWorkers, decVars, dl, man2, progress>>

\* runPatchPhase after DoInParallel returned
ApplyWait ==
    /\ pc = "apply"
    /\ Finished(applyW)
    /\ IF groupErr # Nil
       THEN Return(groupErr)
       ELSE /\ pc' = "rename"
            /\ UNCHANGED retVars
    /\ UNCHANGED <<planVars, diskVars, workVars, extCancelled, numWorkers, decVars, dl, man2, progress>>

\* One iteration of the loop that moves patched files into place
RenameStep ==
    /\ pc = "rename"
    /\ Len(renamed) < Len(actions.ToUpdate)
    /\ LET ui == actions.ToUpdate[Len(renamed) + 1]
           staged == ui.TempFilename \in DOMAIN tempFiles
       IN  \/ \* MkdirAll or Rename failed
              /\ Return("err")
              /\ UNCHANGED <<installFiles, tempFiles, renamed, manifest>>
           \/ /\ staged
              /\ installFiles' = [installFiles EXCEPT ![ui.FilePath] = tempFiles[ui.TempFilename]]
              /\ tempFiles' = [t \in (DOMAIN tempFiles) \ {ui.TempFilename} |-> tempFiles[t]]
              /\ renamed' = Append(renamed, ui.FilePath)
              /\ \/ \* Stat failed
                    /\ Return("err")
                    /\ UNCHANGED manifest
                 \/ /\ manifest' = ManifestAdd(manifest, ui.FilePath,
                                        tempFiles[ui.TempFilename].modTime, ui.Checksum)
                    /\ UNCHANGED <<pc, retVars>>
    /\ UNCHANGED <<instructions, existingFiles, toMeasure, manifestChecksums,
                   checksums, actions, manifestFile, patchFiles, stagingRemoved,
                   manifestWrites, deleted, clock, workVars, extCancelled,
                   numWorkers, decVars, dl, man2, progress>>

\* The loop that moves patched files into place is over
RenameEnd ==
    /\ pc = "rename"
    /\ Len(renamed) = Len(actions.ToUpdate)
    /\ pc' = "delete"
    /\ UNCHANGED <<planVars, diskVars, workVars, extCancelled, retVars,
                   numWorkers, decVars, dl, man2, progress>>

\* One iteration of the loop that removes obsolete files
DeleteStep ==
    /\ pc = "delete"
    /\ Len(deleted) < Len(actions.ToDelete)
    /\ LET path == actions.ToDelete[Len(deleted) + 1]
       IN  \/ \* os.Remove failed
              /\ Return("err")
              /\ UNCHANGED <<installFiles, deleted>>
           \/ /\ installFiles[path] # NoFile
              /\ installFiles' = [installFiles EXCEPT ![path] = NoFile]
              /\ deleted' = Append(deleted, path)
              /\ UNCHANGED <<pc, retVars>>
    /\ UNCHANGED <<planVars, manifestFile, patchFiles, tempFiles, stagingRemoved,
                   manifestWrites, renamed, clock, workVars, extCancelled,
                   numWorkers, decVars, dl, man2, progress>>

\* runPatchPhase returns nil
ApplyEnd ==
    /\ pc = "delete"
    /\ Len(deleted) = Len(actions.ToDelete)
    /\ pc' = "cleanup"
    /\ UNCHANGED <<planVars, diskVars, workVars, extCancelled, retVars,
                   numWorkers, decVars, dl, man2>>
    /\ progress' = PhaseDone(progress, "apply")

\* os.RemoveAll(patchDir): everything below <installDir>/patch goes
RemovePatchDir ==
    /\ pc = "cleanup"
    /\ installFiles' = [p \in DOMAIN installFiles |->
                          IF p \in UnderPatchDir THEN NoFile ELSE installFiles[p]]
    /\ patchFiles' = {}
    /\ tempFiles' = EmptyMap
    /\ stagingRemoved' = TRUE
    /\ \/ \* RemoveAll returned an error after removing what it could
          Return("err")
       \/ /\ pc' = "write"
          /\ UNCHANGED retVars
    /\ UNCHANGED <<planVars, manifestFile, manifestWrites, renamed, deleted,
                   clock, workVars, extCancelled, numWorkers, decVars, dl, man2, progress>>

\* The failure of os.RemoveAll before anything was removed
RemovePatchDirFails ==
    /\ pc = "cleanup"
    /\ Return("err")
    /\ UNCHANGED <<planVars, diskVars, workVars, extCancelled, numWorkers, decVars, dl, man2, progress>>

\* manifest.WriteManifest and the return of RunPatcher
WriteManifest ==
    /\ pc = "write"
    /\ manifestWrites' = manifestWrites + 1
    /\ \/ \* os.WriteFile failed
          /\ Return("err")
          /\ UNCHANGED manifestFile
       \/ /\ manifestFile' = EncodeManifest(manifest)
          /\ Return("ok")
    /\ UNCHANGED <<planVars, installFiles, patchFiles, tempFiles, stagingRemoved,
                   renamed, deleted, clock, workVars, extCancelled, numWorkers, decVars, dl, man2, progress>>

\* The progress goroutine calls ProgressFunc for a tick of its ticker
EmitterTick ==
    /\ progress.emitter = "running"
    /\ progress.ticks < MaxTicks
    /\ progress' = [progress EXCEPT !.ticks = @ + 1]
    /\ UNCHANGED <<planVars, diskVars, workVars, pc, extCancelled, retVars,
                   numWorkers, decVars, dl, man2>>

\* The progress goroutine finds its context done, by the cancellation of
\* the context given to RunPatcher or by the cancelCtx of the deferred
\* function: it calls ProgressFunc, closes progressDone and ends
EmitterFinal ==
    /\ progress.emitter = "running"
    /\ extCancelled \/ pc = "returned"
    /\ progress' = [progress EXCEPT !.finals = @ + 1, !.emitter = "done",
                                    !.delivered = Current(progress)]
    /\ UNCHANGED <<planVars, diskVars, workVars, pc, extCancelled, retVars,
                   numWorkers, decVars, dl, man2>>

\* A deferred function that cancels the context and does not wait
RunPatcherDeferredNoWait ==
    /\ pc = "returned"
    /\ ~progress.exited
    /\ progress' = [progress EXCEPT !.exited = TRUE]
    /\ UNCHANGED <<planVars, diskVars, workVars, pc, extCancelled, retVars,
                   numWorkers, decVars, dl, man2>>

\* The deferred function of RunPatcher after a return statement: cancelCtx()
\* and the receive from progressDone, then RunPatcher is back at its caller
RunPatcherDeferred ==
    /\ pc = "returned"
    /\ ~progress.exited
    /\ progress.emitter = "done"
    /\ progress' = [progress EXCEPT !.exited = TRUE]
    /\ UNCHANGED <<planVars, diskVars, workVars, pc, extCancelled, retVars,
                   numWorkers, decVars, dl, man2>>

NextRun ==
    \/ ExternalCancel
    \/ RunPatcherBegin
    \/ VerifyBegin
    \/ \E i \in 1..MaxInstr : VerifyLaunch(i)
    \/ \E i \in 1..MaxInstr : VerifyFinish(i)
    \/ VerifyEnd
    \/ DownloadBegin
    \/ \E i \in 1..MaxInstr : DownloadLaunch(i)
    \/ \E i \in 1..MaxInstr : DownloadFinish(i)
    \/ DownloadEnd
    \/ ApplyBegin
    \/ \E i \in 1..MaxInstr : ApplyLaunch(i)
    \/ \E i \in 1..MaxInstr : ApplyFinish(i)
    \/ ApplyWait
    \/ RenameStep
    \/ RenameEnd
    \/ DeleteStep
    \/ ApplyEnd
    \/ RemovePatchDir
    \/ RemovePatchDirFails
    \/ WriteManifest
    \/ EmitterTick
    \/ EmitterFinal
    \/ RunPatcherDeferred

SpecRun == InitRun /\ [][NextRun]_vars

----------------------------------------------------------------------------
(* SpecManifest: a manifest is filled, written and read back *)

\* File names handed to Add and Check, some of them not in path.Clean form
ManifestNames == {"a", "./a", "a/b", "a//b"}

\* Modification times handed to Add
ManifestTimes == {Time(1, "Local"), Time(1, "UTC"), Time(2, "Local")}

ManifestChecksums == {"aa", "bb"}

InitManifest ==
    /\ \E product \in Products : manifest = NewManifest(product)
    /\ pc = "m_new"
    /\ instructions = <<>>
    /\ existingFiles = EmptyMap
    /\ toMeasure = <<>>
    /\ manifestChecksums = EmptyMap
    /\ checksums = EmptyMap
    /\ actions = NoActions
    /\ dl = DLIdle
    /\ RunIdle
    /\ DecodeIdle

\* man1.Add(filename, lastChange, checksum)
ManifestAddCall ==
    /\ pc = "m_new"
    /\ \E filename \in ManifestNames, lastChange \in ManifestTimes,
          checksum \in ManifestChecksums :
          manifest' = ManifestAdd(manifest, filename, lastChange, checksum)
    /\ UNCHANGED <<instructions, existingFiles, toMeasure, manifestChecksums,
                   checksums, actions, diskVars, workVars, pc, extCancelled,
                   retVars, numWorkers, decVars, dl, man2, progress>>

\* man1.WriteManifest(dir)
ManifestWriteCall ==
    /\ pc = "m_new"
    /\ \/ \* os.WriteFile failed
          /\ pc' = "m_write_failed"
          /\ UNCHANGED manifestFile
       \/ /\ manifestFile' = EncodeManifest(manifest)
          /\ pc' = "m_written"
    /\ UNCHANGED <<planVars, installFiles, patchFiles, tempFiles, stagingRemoved,
                   manifestWrites, renamed, deleted, clock, workVars,
                   extCancelled, retVars, numWorkers, decVars, dl, man2, progress>>

\* man2, err := ReadManifest(dir, product)
ManifestReadCall ==
    /\ pc \in {"m_new", "m_written"}
    /\ \E product \in Products :
          man2' = ReadManifest(manifestFile, product)
    /\ pc' = IF pc = "m_written" THEN "m_read" ELSE "m_read_absent"
    /\ UNCHANGED <<planVars, diskVars, workVars, extCancelled, retVars,
                   numWorkers, decVars, dl, progress>>

NextManifest == ManifestAddCall \/ ManifestWriteCall \/ ManifestReadCall

SpecManifest == InitManifest /\ [][NextManifest]_vars

----------------------------------------------------------------------------
(* SpecDL: a Downloader and one DownloadFile call against a server *)

\* The local file name of the call
DLFilename == "patch/f"

\* The checksums an instruction can give for a patch file the server holds
\* as served: its digest in either case, or the digest of other bytes
ChecksumsFor(served) ==
    {Sha256Hex(served), Sha256HexUpper(served), Sha256Hex(<<>>)}

\* file.Write at the I/O offset pos: a hole left by Truncate reads as zeros
WriteAt(file, pos, b) ==
    [i \in 1..(IF pos + 1 > Len(file) THEN pos + 1 ELSE Len(file)) |->
        IF i = pos + 1 THEN b
        ELSE IF i <= Len(file) THEN file[i] ELSE 0]

\* The files the server can hold.  Bytes are only compared with each other,
\* so the first byte of the server's file is fixed
ServedFiles == {b \in ByteSeqs(MaxSize + 1) : b # <<>> /\ b[1] = 0}

InitDL ==
    /\ \E served \in ServedFiles, size \in 1..MaxSize,
          file \in ByteSeqs(MaxSize + 1) :
       \E checksum \in ChecksumsFor(served) :
          dl = [pc |-> "idle",
                served |-> served,
                expectedChecksum |-> checksum,
                expectedSize |-> size,
                file |-> file,
                initial |-> file,
                filePos |-> 0,
                offset |-> 0,
                hashed |-> <<>>,
                catchUpMode |-> FALSE,
                secondsWithoutData |-> 0,
                silentTicks |-> 0,
                stalled |-> FALSE,
                written |-> 0,
                attempt |-> 0,
                waitTime |-> 0,
                waits |-> <<>>,
                requests |-> <<>>,
                invocations |-> 0,
                lastErr |-> Nil,
                ret |-> Nil,
                ret2 |-> Nil,
                bytesDownloadedThisSecond |-> 0,
                bytesDownloadedTotal |-> 0,
                downloads |-> EmptyMap,
                downloadCount |-> 0]
    /\ pc = "dl"
    /\ instructions = <<>>
    /\ manifest = NoFile
    /\ existingFiles = EmptyMap
    /\ toMeasure = <<>>
    /\ manifestChecksums = EmptyMap
    /\ checksums = EmptyMap
    /\ actions = NoActions
    /\ RunIdle
    /\ DecodeIdle

notDL == <<planVars, diskVars, workVars, pc, retVars, numWorkers, decVars, man2,
           progress>>

\* The Range header of a request and the mutant that takes the end point of
\* the range as exclusive
RangeHeaderExclusive(offset, expectedSize) ==
    IF offset > 0 THEN <<offset, expectedSize>> ELSE <<>>

\* doDownloadFile: "bytes=offset-(expectedSize-1)" when resuming, no header
\* for a download from the start
RangeHeader(offset, expectedSize) ==
    IF offset > 0 THEN <<offset, expectedSize - 1>> ELSE <<>>

\* (*downloadObserver).getChecksum
getChecksum(d) == Sha256Hex(d.hashed)

\* The context given to DownloadFile is cancelled
DLExternalCancel ==
    /\ dl.pc \in {"idle", "attempt", "streaming", "waiting"}
    /\ ~extCancelled
    /\ extCancelled' = TRUE
    /\ UNCHANGED <<notDL, dl>>

\* register without the test for an earlier download of the file name
registerNoCheck(downloads, filename, downloadIdx) ==
    [err |-> FALSE, downloads |-> MapPut(downloads, filename, downloadIdx)]

\* (*Downloader).register: the error flag and d.downloads afterwards
register(downloads, filename, downloadIdx) ==
    IF filename \in DOMAIN downloads /\ downloads[filename] # downloadIdx
    THEN [err |-> TRUE, downloads |-> downloads]
    ELSE [err |-> FALSE, downloads |-> MapPut(downloads, filename, downloadIdx)]

\* DownloadFile up to the retry loop: register, open, catch up with the
\* bytes already in the file
DownloadFileBegin ==
    /\ dl.pc = "idle"
    /\ LET downloadIdx == dl.downloadCount
           registered == register(dl.downloads, DLFilename, downloadIdx)
           n == Len(dl.file)
           \* io.Copy(observer, file): observer.Write for the bytes on disk
           caught == [dl EXCEPT
                        !.downloadCount = @ + 1,
                        !.downloads = registered.downloads,
                        !.hashed = dl.file,
                        !.secondsWithoutData = 0,
                        !.bytesDownloadedThisSecond =
                            IF dl.catchUpMode THEN @ ELSE @ + n,
                        !.bytesDownloadedTotal =
                            IF dl.catchUpMode THEN @ ELSE @ + n,
                        !.offset = n,
                        !.filePos = n]
           looping == [caught EXCEPT !.catchUpMode = FALSE,
                                     !.waitTime = RetryBaseDelay,
                                     !.attempt = 1,
                                     !.pc = "attempt"]
       IN  IF registered.err
           THEN dl' = [dl EXCEPT !.downloadCount = @ + 1,
                                 !.lastErr = "twice", !.ret = "err", !.pc = "done"]
           ELSE \/ \* os.OpenFile failed
                   dl' = [dl EXCEPT !.downloadCount = @ + 1,
                                    !.downloads = registered.downloads,
                                    !.lastErr = "open", !.ret = "err", !.pc = "done"]
                \/ IF n = dl.expectedSize
                   THEN IF HashEqual(dl.expectedChecksum, getChecksum(caught))
                        THEN dl' = [caught EXCEPT !.ret = "ok", !.pc = "done"]
                        ELSE \* resetChecksum, file.Truncate(0)
                             dl' = [looping EXCEPT !.hashed = <<>>, !.file = <<>>]
                   ELSE IF n > dl.expectedSize
                   THEN dl' = [looping EXCEPT !.hashed = <<>>, !.file = <<>>]
                   ELSE dl' = looping
    /\ UNCHANGED <<notDL, extCancelled>>

\* A later DownloadFile call of the same Downloader for the file name an
\* earlier call has registered: it returns the error of register, or goes
\* on to os.OpenFile
DownloadFileAgain ==
    /\ DLFilename \in DOMAIN dl.downloads
    /\ dl.ret2 = Nil
    /\ LET downloadIdx == dl.downloadCount
           registered == register(dl.downloads, DLFilename, downloadIdx)
       IN  dl' = [dl EXCEPT !.downloadCount = @ + 1,
                            !.downloads = registered.downloads,
                            !.ret2 = IF registered.err THEN "twice"
                                     ELSE "opened"]
    /\ UNCHANGED <<notDL, extCancelled>>

\* The retry loop without its test for a cancellation
AfterFailureRetriesCancel(d, kind) ==
    LET e == [d EXCEPT !.lastErr = kind]
    IN  IF d.attempt > MaxAttempts
        THEN [e EXCEPT !.ret = IF kind = "canceled" THEN "canceled" ELSE "err",
                       !.pc = "done"]
        ELSE LET w == (d.waitTime * RetryFactorNum) \div RetryFactorDen
             IN  [e EXCEPT !.attempt = @ + 1,
                           !.waitTime = w,
                           !.waits = Append(@, w),
                           !.pc = "waiting"]

\* The retry loop of DownloadFile after doDownloadFile returned the error
\* kind with d.offset already set to the offset it returned
AfterFailure(d, kind) ==
    LET e == [d EXCEPT !.lastErr = kind]
    IN  IF d.attempt > MaxAttempts
        THEN [e EXCEPT !.ret = IF kind = "canceled" THEN "canceled" ELSE "err",
                       !.pc = "done"]
        ELSE IF kind = "canceled"
        THEN [e EXCEPT !.ret = "canceled", !.pc = "done"]
        ELSE LET w == (d.waitTime * RetryFactorNum) \div RetryFactorDen
             IN  [e EXCEPT !.attempt = @ + 1,
                           !.waitTime = w,
                           !.waits = Append(@, w),
                           !.pc = "waiting"]

\* doDownloadFile from its start to the arrival of the response headers
DownloadRequest ==
    /\ dl.pc = "attempt"
    /\ LET d == [dl EXCEPT !.invocations = @ + 1]
       IN  IF dl.offset >= dl.expectedSize
           THEN dl' = AfterFailure(d, "offset")
           ELSE LET range == RangeHeader(dl.offset, dl.expectedSize)
                    r == [d EXCEPT !.requests = Append(@, range)]
                IN  \E outcome \in {"headers", "canceled", "timeout", "net"} :
                       /\ outcome = "canceled" => extCancelled
                       \* the server has bytes from the requested offset on
                       /\ outcome = "headers" => dl.offset < Len(dl.served)
                       /\ dl' = IF outcome = "headers"
                                THEN [r EXCEPT !.pc = "streaming",
                                               !.silentTicks = 0,
                                               !.stalled = FALSE,
                                               !.written = 0]
                                ELSE AfterFailure(r, outcome)
    /\ UNCHANGED <<notDL, extCancelled>>

\* io.Copy(file, TeeReader(resp.Body, observer)) moves the next byte of the
\* body: the server sends its file from the requested offset on
DownloadData ==
    /\ dl.pc = "streaming"
    /\ ~dl.stalled
    /\ dl.offset + dl.written < Len(dl.served)
    /\ LET b == dl.served[dl.offset + dl.written + 1] IN
       dl' = [dl EXCEPT
                !.hashed = Append(@, b),
                !.secondsWithoutData = 0,
                !.silentTicks = 0,
                !.bytesDownloadedThisSecond = IF dl.catchUpMode THEN @ ELSE @ + 1,
                !.bytesDownloadedTotal = IF dl.catchUpMode THEN @ ELSE @ + 1,
                !.file = WriteAt(@, dl.filePos, b),
                !.filePos = @ + 1,
                !.written = @ + 1]
    /\ UNCHANGED <<notDL, extCancelled>>

\* A tick of the stall watchdog of the running attempt; silentTicks counts
\* the ticks of this attempt since its last body byte or its start. Once the request
\* context is cancelled through its parent, cancelRequestCtx no longer sets
\* the cause and the copy is about to return, so the ticks that follow are
\* left out
WatchdogTick ==
    /\ dl.pc = "streaming"
    /\ ~dl.stalled
    /\ ~extCancelled
    /\ dl' = [dl EXCEPT !.secondsWithoutData = @ + 1,
                        !.silentTicks = @ + 1,
                        !.stalled = dl.secondsWithoutData > StallTimeout]
    /\ UNCHANGED <<notDL, extCancelled>>

\* io.Copy returns: the end of doDownloadFile
DownloadCopyEnd ==
    /\ dl.pc = "streaming"
    /\ LET d == [dl EXCEPT !.offset = @ + dl.written]
       IN  \E outcome \in {"eof", "net", "stall", "canceled"} :
              /\ outcome = "eof" =>
                    ~dl.stalled /\ d.offset = Len(dl.served)
              /\ outcome = "stall" => dl.stalled
              /\ outcome = "canceled" => extCancelled /\ ~dl.stalled
              /\ dl' = IF outcome # "eof" THEN AfterFailure(d, outcome)
                       ELSE IF d.offset < d.expectedSize
                       THEN AfterFailure(d, "short")
                       ELSE IF ~HashEqual(d.expectedChecksum, getChecksum(d))
                       THEN AfterFailure(d, "checksum")
                       ELSE [d EXCEPT !.ret = "ok", !.pc = "done"]
    /\ UNCHANGED <<notDL, extCancelled>>

\* The wait between two attempts is over: time.After fires before ctx.Done()
\* is ready
RetryWaitElapsed ==
    /\ dl.pc = "waiting"
    /\ ~extCancelled
    /\ dl' = [dl EXCEPT !.pc = "attempt"]
    /\ UNCHANGED <<notDL, extCancelled>>

\* The wait between two attempts ends with ctx.Done()
RetryWaitCancelled ==
    /\ dl.pc = "waiting"
    /\ extCancelled
    /\ dl' = [dl EXCEPT !.ret = "canceled", !.pc = "done"]
    /\ UNCHANGED <<notDL, extCancelled>>

NextDL ==
    \/ DLExternalCancel
    \/ DownloadFileBegin
    \/ DownloadFileAgain
    \/ DownloadRequest
    \/ DownloadData
    \/ WatchdogTick
    \/ DownloadCopyEnd
    \/ RetryWaitElapsed
    \/ RetryWaitCancelled

SpecDL == InitDL /\ [][NextDL]_vars

----------------------------------------------------------------------------
(* SpecDecode: DecodeInstructions applied to bounded payloads *)

\* The fields of a record next to its Path
RawTemplates ==
    {[OldHash |-> "AA", NewHash |-> "bb", CompressedHash |-> "cc",
      DeltaHash |-> d, HasDelta |-> h, FullReplaceSize |-> 20, DeltaSize |-> 5] :
        d \in {Nil, "dd"}, h \in BOOLEAN}

MkRaw(path, t) ==
    [Path |-> path, OldHash |-> t.OldHash, NewHash |-> t.NewHash,
     CompressedHash |-> t.CompressedHash, DeltaHash |-> t.DeltaHash,
     HasDelta |-> t.HasDelta, FullReplaceSize |-> t.FullReplaceSize,
     DeltaSize |-> t.DeltaSize]

\* The paths of the records of a payload of several records: spellings of
\* a, of a\a and of ..
SeveralPaths ==
    {<<"a">>, <<"a", "\\">>, <<".", "\\", "a">>, <<"a", "\\", "a">>,
     <<".", ".">>}

\* The records of a payload: one record with any path, or up to MaxRecords
\* records with the paths of SeveralPaths
RecordLists ==
    {<< MkRaw(path, t) >> : path \in GoStrings(MaxPathLen), t \in RawTemplates}
    \cup UNION {[1..n -> {MkRaw(path, t) : path \in SeveralPaths,
                                           t \in {u \in RawTemplates :
                                                    u.HasDelta = (u.DeltaHash # Nil)}}] :
                  n \in 0..MaxRecords}

InitDecode ==
    /\ goos \in GOOSes
    /\ \E records \in RecordLists, hashMatches \in BOOLEAN, wellFormed \in BOOLEAN :
          jsonData = [hashMatches |-> hashMatches, wellFormed |-> wellFormed,
                      records |-> records]
    /\ decoded = NotDecoded
    /\ pc = "decode_start"
    /\ instructions = <<>>
    /\ manifest = NoFile
    /\ existingFiles = EmptyMap
    /\ toMeasure = <<>>
    /\ manifestChecksums = EmptyMap
    /\ checksums = EmptyMap
    /\ actions = NoActions
    /\ dl = DLIdle
    /\ RunIdle

\* A call of DecodeInstructions
CallDecodeInstructions ==
    /\ pc = "decode_start"
    /\ decoded' = DecodeInstructions(goos, jsonData)
    /\ pc' = "decoded"
    /\ UNCHANGED <<planVars, diskVars, workVars, extCancelled, retVars,
                   numWorkers, goos, jsonData, dl, man2, progress>>

NextDecode == CallDecodeInstructions

SpecDecode == InitDecode /\ [][NextDecode]_vars

----------------------------------------------------------------------------
(* Properties of the downloader *)

\* C3: a DownloadFile call performs at most MaxAttempts network attempts
RetryBound == Len(dl.requests) <= MaxAttempts

\* C4: whenever DownloadFile returns success the local file holds exactly
\* expectedSize bytes whose SHA-256 equals expectedChecksum
DownloadedFileValid ==
    (dl.pc = "done" /\ dl.ret = "ok") =>
        /\ Len(dl.file) = dl.expectedSize
        /\ HashEqual(Sha256Hex(dl.file), dl.expectedChecksum)

----------------------------------------------------------------------------
(* Properties of a run *)

Returned == pc = "returned"

\* Positions of RunPatcher inside the verify, download and apply phases
PhasePositions == {"verify_begin", "verify", "download", "apply", "rename", "delete"}

AllOk(w) == \A i \in 1..Len(w) : w[i] = "ok"

\* C1 as stated: a run whose context is cancelled does not write the manifest
CancelledRunNeverWrites == extCancelled => manifestWrites = 0

\* C1 (amended): if the external context is cancelled and a phase worker
\* returns the cancellation error, the run does not write ta-manifest.json.
CancelObservedNoWrite ==
    LET
        SomeWorker(status) ==
            \/ \E i \in 1..Len(verifyW) : verifyW[i] = status
            \/ \E i \in 1..Len(downloadW) : downloadW[i] = status
            \/ \E i \in 1..Len(applyW) : applyW[i] = status
    IN
        (extCancelled /\ SomeWorker("canceled")) => manifestWrites = 0

\* A cancelled run that ended with the cancellation error of a worker
CancelObservedWitness ==
    LET
        SomeWorker(status) ==
            \/ \E i \in 1..Len(verifyW) : verifyW[i] = status
            \/ \E i \in 1..Len(downloadW) : downloadW[i] = status
            \/ \E i \in 1..Len(applyW) : applyW[i] = status
    IN
        /\ Returned
        /\ extCancelled
        /\ SomeWorker("canceled")
        /\ result = "canceled"

\* C2: the manifest is written at most once in a run, only after the verify,
\* download and apply phases returned without error; a run that returns
\* success wrote it exactly once, a run in which a phase failed did not.
ManifestWrittenOnce ==
    LET
        \* The three phases have run to their end without error
        AllPhasesOk ==
            /\ pc \in {"cleanup", "write", "returned"}
            /\ failedAt \notin PhasePositions \cup {"start"}
            /\ Len(verifyW) = Len(toMeasure) /\ AllOk(verifyW)
            /\ Len(downloadW) = Len(actions.ToDownload) /\ AllOk(downloadW)
            /\ Len(applyW) = Len(actions.ToUpdate) /\ AllOk(applyW)
            /\ Len(renamed) = Len(actions.ToUpdate)
            /\ Len(deleted) = Len(actions.ToDelete)
    IN
        /\ manifestWrites <= 1
        /\ manifestWrites = 1 => AllPhasesOk
        /\ (Returned /\ result = "ok") => manifestWrites = 1
        /\ failedAt \in PhasePositions => manifestWrites = 0

\* A successful run that measured, downloaded, patched and wrote the manifest
ManifestWrittenWitness ==
    /\ Returned
    /\ result = "ok"
    /\ manifestWrites = 1
    /\ verifyW # <<>>
    /\ renamed # <<>>

\* C5: a staged file is renamed onto its install path only if ApplyPatch
\* returned success for it, and ApplyPatch returns success only when the
\* program exited with code zero and the bytes written hash to newHash.
RenameOnlyVerified ==
    /\ \A i \in 1..Len(renamed) :
          /\ applyW[i] = "ok"
          /\ renamed[i] = actions.ToUpdate[i].FilePath
          /\ installFiles[renamed[i]] # NoFile =>
                HashEqual(installFiles[renamed[i]].content, actions.ToUpdate[i].Checksum)
    /\ \A i \in 1..Len(applyW) :
          applyW[i] = "ok" =>
             /\ applyExit[i] = "0"
             /\ actions.ToUpdate[i].TempFilename \in DOMAIN tempFiles =>
                   HashEqual(tempFiles[actions.ToUpdate[i].TempFilename].content,
                             actions.ToUpdate[i].Checksum)

\* Two patched files were moved into place
RenameOnlyVerifiedWitness ==
    /\ Len(renamed) = 2
    /\ \A i \in 1..2 : installFiles[renamed[i]] # NoFile

\* C6: if a planned download returns an error, RunPatcher returns an error
\* and the run applies no patch, renames and deletes nothing and does not
\* write the manifest.
DownloadFailureAborts ==
    (\E i \in 1..Len(downloadW) : downloadW[i] \in {"err", "canceled"}) =>
        /\ \A j \in 1..Len(applyW) : applyW[j] = "idle"
        /\ tempFiles = EmptyMap
        /\ renamed = <<>>
        /\ deleted = <<>>
        /\ manifestWrites = 0
        /\ Returned => result \in {"err", "canceled"}

\* A run that returned the error of a failed download while a sibling succeeded
DownloadFailureWitness ==
    /\ Returned
    /\ result = "err"
    /\ \E i, j \in 1..Len(downloadW) : downloadW[i] = "err" /\ downloadW[j] = "ok"

PhaseOrder ==
    /\ (\E i \in 1..Len(downloadW) : downloadW[i] # "idle") =>
          /\ Len(verifyW) = Len(toMeasure) /\ AllOk(verifyW)
          /\ Len(downloadW) = Len(actions.ToDownload)
          /\ actions = DetermineActions(instructions, manifest, existingFiles, checksums)
    /\ (\E i \in 1..Len(applyW) : applyW[i] # "idle") =>
          /\ Len(downloadW) = Len(actions.ToDownload) /\ AllOk(downloadW)
          /\ Len(verifyW) = Len(toMeasure) /\ AllOk(verifyW)

\* A patch application running after measurements and downloads
PhaseOrderWitness ==
    /\ \E i \in 1..Len(applyW) : applyW[i] = "running"
    /\ verifyW # <<>>
    /\ Len(downloadW) = 2

\* C10: after a successful run the planner, run again on the same
\* instructions, the resulting files and the written manifest, plans no
\* download, no update and no deletion.
PlannerIdempotent ==
    LET
        \* The plan of a second run: ScanFiles, ReadManifest, DetermineFilesToMeasure,
        \* the measurements and DetermineActions on the state the run left
        Replan ==
            LET files == ScanFiles(installFiles)
                m == ReadManifest(manifestFile, Product)
                r == DetermineFilesToMeasure(instructions, m, files)
                measured == AddMeasured([checksums |-> r.checksums, manifest |-> m],
                                        r.toVerify, installFiles, 1)
            IN  DetermineActions(instructions, measured.manifest, files, measured.checksums)
    IN
        (Returned /\ result = "ok") => Replan = NoActions

----------------------------------------------------------------------------
(* Properties of the plan *)

Range(s) == {s[i] : i \in 1..Len(s)}

UpdatePaths(acts) == {u.FilePath : u \in Range(acts.ToUpdate)}

\* C9: for an instruction list without duplicate paths, no path of the plan
\* is both in updates and in deletions, and no path in deletions has a
\* download scheduled for it.
PlanDisjoint ==
    LET
        \* The paths a download of the plan is scheduled for: the paths of the
        \* updates that read the downloaded patch file
        DownloadPaths(acts) ==
            {u.FilePath : u \in {x \in Range(acts.ToUpdate) :
                                   \E d \in Range(acts.ToDownload) : d.LocalPath = x.PatchPath}}
    IN
        (pc = "plan_done" /\ NoDupPaths(instructions)) =>
            /\ UpdatePaths(actions) \cap Range(actions.ToDelete) = {}
            /\ DownloadPaths(actions) \cap Range(actions.ToDelete) = {}

\* A plan that deletes one path and updates (with a download) another
PlanDisjointWitness ==
    /\ pc = "plan_done"
    /\ NoDupPaths(instructions)
    /\ actions.ToDelete # <<>>
    /\ actions.ToUpdate # <<>>
    /\ actions.ToDownload # <<>>

\* The instructions of the plan that have a NewHash and whose file exists
Measurable ==
    {i \in 1..Len(instructions) :
        /\ instructions[i].NewHash # Nil
        /\ instructions[i].Path \in DOMAIN existingFiles}

\* The manifest has an entry for the path of instruction i whose LastChange
\* is the modification time of the file on disk
ManifestTimeMatches(i) ==
    LET p == instructions[i].Path
    IN  /\ p \in DOMAIN manifest.Entries
        /\ TimeEqual(manifest.Entries[p].LastChange, existingFiles[p].ModTime)

PlanMeasured == pc \in {"plan_measured", "plan_done"}

StaleChecksum ==
    {i \in Measurable :
        /\ ManifestTimeMatches(i)
        /\ manifest.Entries[instructions[i].Path].LastChecksum
               # instructions[i].NewHash}

Updatable ==
    {i \in Measurable : instructions[i].CompressedHash # Nil}

\* The plan holds nothing for the path of instruction i
NothingPlannedFor(i) ==
    /\ instructions[i].Path \notin UpdatePaths(actions)
    /\ instructions[i].Path \notin Range(actions.ToDelete)
    /\ Len(instructions) = 1 => actions.ToDownload = <<>>

NonDelete ==
    {i \in 1..Len(instructions) :
        /\ instructions[i].NewHash # Nil
        /\ instructions[i].CompressedHash # Nil}

\* The file of instruction i exists with a known hash equal to hash
KnownHashIs(i, hash) ==
    /\ instructions[i].Path \in DOMAIN existingFiles
    /\ HashEqual(Lookup(checksums, instructions[i].Path), hash)

UpdatesFor(i) ==
    {u \in Range(actions.ToUpdate) : u.FilePath = instructions[i].Path}

RemovalPlanned ==
    LET
        \* The instructions without NewHash or without CompressedHash
        Removals == (1..Len(instructions)) \ NonDelete
    IN
        (pc = "plan_done" /\ NoDupPaths(instructions)) =>
            /\ \A i \in Removals :
                  /\ instructions[i].Path \in Range(actions.ToDelete)
                         <=> instructions[i].Path \in DOMAIN existingFiles
                  /\ UpdatesFor(i) = {}
            /\ NonDelete = {} =>
                  /\ actions.ToDownload = <<>>
                  /\ actions.ToUpdate = <<>>
                  /\ Len(actions.ToDelete)
                         = Cardinality({i \in Removals :
                               instructions[i].Path \in DOMAIN existingFiles})

\* Two removals, one of a file on disk and one of an absent file, one of
\* them a record with NewHash but without CompressedHash
RemovalWitness ==
    LET
        \* The instructions without NewHash or without CompressedHash
        Removals == (1..Len(instructions)) \ NonDelete
    IN
        /\ pc = "plan_done"
        /\ NoDupPaths(instructions)
        /\ \E i, j \in Removals :
              /\ instructions[i].Path \in Range(actions.ToDelete)
              /\ instructions[j].Path \notin DOMAIN existingFiles
              /\ \E k \in {i, j} : instructions[k].NewHash # Nil

\* The checksum of the patch file instruction i needs, Nil if it needs none
NeededChecksum(i) ==
    LET instr == instructions[i]
    IN  IF i \notin NonDelete \/ KnownHashIs(i, instr.NewHash) THEN Nil
        ELSE IF instr.DeltaHash # Nil /\ KnownHashIs(i, instr.OldHash)
        THEN instr.DeltaHash
        ELSE instr.CompressedHash

\* C16: no two downloads of the plan have the same checksum, and every
\* needed patch checksum has exactly one download, so there are at most as
\* many downloads as distinct needed checksums.
DownloadsDeduplicated ==
    LET
        NeededChecksums == {NeededChecksum(i) : i \in 1..Len(instructions)} \ {Nil}
    IN
        pc = "plan_done" =>
            /\ \A i, j \in 1..Len(actions.ToDownload) :
                  actions.ToDownload[i].Checksum = actions.ToDownload[j].Checksum
                      => i = j
            /\ {d.Checksum : d \in Range(actions.ToDownload)} = NeededChecksums
            /\ Len(actions.ToDownload) <= Cardinality(NeededChecksums)

\* Two instructions for different paths that need the same patch file, and
\* one download
DownloadsDeduplicatedWitness ==
    /\ pc = "plan_done"
    /\ \E i, j \in 1..Len(instructions) :
          /\ instructions[i].Path # instructions[j].Path
          /\ NeededChecksum(i) # Nil
          /\ NeededChecksum(i) = NeededChecksum(j)
    /\ Len(actions.ToDownload) = 1

----------------------------------------------------------------------------
(* Properties of the manifest *)

----------------------------------------------------------------------------
(* Properties of a run that finds a manifest of another product *)

\* C18: when ta-manifest.json is bound to another product, ReadManifest
\* fails with the wrong-product error and RunPatcher returns an error
\* without scanning, hashing, downloading, patching, deleting or writing
\* anything; the error is the wrong-product error unless RunPatcher failed
\* before it read the manifest.
WrongProductRefused ==
    (pc \in PhasePositions \cup {"start", "returned"}
         /\ manifestFile # NoFile /\ manifestFile.Product # Product) =>
        /\ ReadManifest(manifestFile, Product) = WrongProduct
        /\ pc \in {"start", "returned"}
        /\ Returned => result \in {"wrong product", "err"}
        /\ manifest = NoFile
        /\ existingFiles = EmptyMap
        /\ verifyW = <<>> /\ downloadW = <<>> /\ applyW = <<>>
        /\ patchFiles = {} /\ tempFiles = EmptyMap
        /\ renamed = <<>> /\ deleted = <<>>
        /\ ~stagingRemoved
        /\ manifestWrites = 0

\* RunPatcher returned the wrong-product error for an install directory
\* with files and instructions that would have work to do
WrongProductWitness ==
    /\ Returned
    /\ result = "wrong product"
    /\ manifestFile.Product = "other"
    /\ instructions # <<>>
    /\ \E p \in DOMAIN installFiles : installFiles[p] # NoFile

----------------------------------------------------------------------------
(* Properties of the downloader: the file found on disk *)

\* C19: when the local file has expectedSize bytes and the expected
\* checksum, DownloadFile (if it can open the file) returns success with the
\* file as it was and without a network request.
CompleteFileSkipsNetwork ==
    [][
        LET
            \* The file on disk has expectedSize bytes and the expected checksum
            CompleteOnDisk ==
                /\ Len(dl.file) = dl.expectedSize
                /\ ToLower(Sha256Hex(dl.file)) = ToLower(dl.expectedChecksum)
        IN
               (dl.pc = "idle" /\ CompleteOnDisk /\ dl'.pc # "idle"
                    /\ dl'.lastErr \notin {"open", "twice"})
                => /\ dl'.pc = "done"
                   /\ dl'.ret = "ok"
                   /\ dl'.requests = <<>>
                   /\ dl'.invocations = 0
                   /\ dl'.file = dl.file
    ]_vars

\* DownloadFile returned success without a request for a file whose
\* checksum the instruction spells in upper case
CompleteFileWitness ==
    /\ dl.pc = "done"
    /\ dl.ret = "ok"
    /\ dl.requests = <<>>
    /\ dl.file # <<>>
    /\ dl.expectedChecksum = Sha256HexUpper(dl.file)

\* C20: when the local file has expectedSize bytes with another checksum, or
\* more than expectedSize bytes, DownloadFile truncates it and enters its
\* retry loop at offset 0, so that the first request carries no Range header.
TruncateRestartsAtZero ==
    [][
        LET
            \* The file on disk has expectedSize bytes with another checksum, or more
            \* than expectedSize bytes
            InvalidOnDisk ==
                \/ Len(dl.file) = dl.expectedSize
                      /\ ToLower(Sha256Hex(dl.file)) # ToLower(dl.expectedChecksum)
                \/ Len(dl.file) > dl.expectedSize
        IN
               (dl.pc = "idle" /\ InvalidOnDisk /\ dl'.pc = "attempt")
                => /\ dl'.file = <<>>
                   /\ dl'.offset = 0
    ]_vars

----------------------------------------------------------------------------
(* Properties of the downloader: resuming a partial file *)

----------------------------------------------------------------------------
(* Properties of the downloader: a body with the wrong checksum *)

\* C22: after an attempt that received the whole body with a wrong
\* checksum the downloaded file is truncated and the next attempt starts
\* again from offset 0, so that it sends a request for the file
ChecksumMismatchTruncates ==
    LET
        \* The last attempt received a whole body whose checksum was wrong, and
        \* the retry loop goes on to another attempt
        ChecksumRetryPending ==
            /\ dl.lastErr = "checksum"
            /\ dl.pc \in {"waiting", "attempt"}
    IN
        ChecksumRetryPending => dl.file = <<>> /\ dl.offset = 0

----------------------------------------------------------------------------
(* Properties of the downloader: cancellation and the downloader's timers *)

\* C23: an attempt that fails for the cancellation of the external context
\* makes DownloadFile return a cancellation error with no further attempt,
\* and so does a cancellation during the wait between attempts (the steps
\* of a later call for the same file name aside); an attempt
\* that fails for the request timeout or the stall watchdog does not give a
\* cancellation error, and another attempt follows while attempts remain
CancelStopsTimeoutRetries ==
    [][
        LET
            \* The step ends an invocation of doDownloadFile with an error of the kind
            AttemptFailed(kind) ==
                /\ dl.pc \in {"attempt", "streaming"}
                /\ dl'.pc \in {"waiting", "done"}
                /\ dl'.ret # "ok"
                /\ dl'.lastErr = kind

            \* DownloadFile returns the cancellation error and no attempt follows
            ReturnsCanceled ==
                /\ dl'.pc = "done"
                /\ dl'.ret = "canceled"
                /\ dl'.invocations \in {dl.invocations, dl.invocations + 1}
                /\ dl'.attempt = dl.attempt
        IN
               /\ AttemptFailed("canceled") => ReturnsCanceled
               /\ (dl.pc = "waiting" /\ extCancelled /\ dl'.ret2 = dl.ret2) =>
                      ReturnsCanceled /\ dl'.requests = dl.requests
               /\ \A kind \in {"timeout", "stall"} :
                      AttemptFailed(kind) =>
                         /\ dl'.ret # "canceled"
                         /\ dl.attempt < MaxAttempts =>
                                /\ dl'.pc = "waiting"
                                /\ dl'.attempt = dl.attempt + 1
    ]_vars

\* A stalled attempt was followed by a wait, and the cancellation during
\* that wait ended the call
CancelDuringWaitWitness ==
    /\ dl.pc = "done"
    /\ dl.ret = "canceled"
    /\ dl.lastErr = "stall"
    /\ dl.attempt = 2
    /\ Len(dl.waits) = 1

----------------------------------------------------------------------------
(* Properties of the downloader: the waits between attempts *)

\* C24: the wait between the failed attempt k and attempt k + 1 is
\* retryBaseDelay * retryWaitIncrementFactor^(k-1), so the first wait is
\* retryBaseDelay
RetryWaitSchedule ==
    LET
        \* retryBaseDelay * retryWaitIncrementFactor^n
        ScaledDelay(n) ==
            (RetryBaseDelay * RetryFactorNum ^ n) \div (RetryFactorDen ^ n)
    IN
        \A k \in 1..Len(dl.waits) : dl.waits[k] = ScaledDelay(k - 1)

----------------------------------------------------------------------------
(* Properties of the downloader: two calls for one file name *)

\* C25: a DownloadFile call for a file name that an earlier call of the
\* same Downloader has registered, running or finished, fails with the
\* 'DownloadFile called twice' error and neither touches the file nor
\* sends a request nor takes over the registration
SecondCallRefused ==
    [][(dl.ret2 = Nil /\ dl'.ret2 # Nil) =>
          /\ dl'.ret2 = "twice"
          /\ dl'.file = dl.file
          /\ dl'.filePos = dl.filePos
          /\ dl'.requests = dl.requests
          /\ dl'.downloads = dl.downloads
          /\ dl'.pc = dl.pc]_vars

\* The later call has been refused and the earlier one is receiving the
\* body of its request
SecondCallWitness ==
    /\ dl.ret2 = "twice"
    /\ dl.pc = "streaming"
    /\ dl.written > 0
    /\ dl.downloadCount = 2

----------------------------------------------------------------------------
(* Properties of the parallel executor *)

\* The worker lists of the three calls of the executor in a run
Pools == {verifyW, downloadW, applyW}

\* C26: with a worker bound of at least 1 the executor never has more than
\* numWorkers invocations of the worker function running at the same time
ConcurrencyBound ==
    \A w \in Pools : Active(w) <= numWorkers

\* The bound is reached while an input is still waiting for a free slot
ConcurrencyBoundWitness ==
    \E w \in Pools :
        /\ Active(w) = numWorkers
        /\ \E i \in 1..Len(w) : w[i] = "idle"

\* The worker list of the executor call made at a phase position
PoolAt(position, v, d, a) ==
    IF position = "verify" THEN v
    ELSE IF position = "download" THEN d ELSE a

\* C27: a worker that returns a non-cancellation error while the external
\* context is not cancelled cancels the context of the workers; siblings
\* that report a cancellation afterwards do not replace the error; and the
\* executor returns that error only after every invocation has returned
FirstErrorWins ==
    [][
        LET
            \* A worker invocation of the list w returns the outcome in the step to w2
            WorkerReturns(w, w2, outcome) ==
                /\ Len(w2) = Len(w)
                /\ \E i \in 1..Len(w) :
                      /\ w[i] \in {"running", "doomed"}
                      /\ w2[i] = outcome
        IN
               \A position \in {"verify", "download", "apply"} :
                  pc = position =>
                     LET w  == PoolAt(position, verifyW, downloadW, applyW)
                         w2 == PoolAt(position, verifyW', downloadW', applyW')
                     IN  /\ (~extCancelled /\ pc' = pc /\ WorkerReturns(w, w2, "err")) =>
                                groupErr' = "err" /\ CtxDone'
                         /\ (groupErr = "err" /\ pc' = pc) => groupErr' = "err"
                         /\ (groupErr = "err" /\ pc' # pc) =>
                                /\ Finished(w)
                                /\ pc' = "returned"
                                /\ result' = "err"
    ]_vars

\* The executor returned a worker's error although a sibling, started after
\* the error, had reported a cancellation
FirstErrorWitness ==
    /\ pc = "returned"
    /\ result = "err"
    /\ ~extCancelled
    /\ \E w \in Pools :
          \E i, j \in 1..Len(w) : w[i] = "err" /\ w[j] = "canceled"

----------------------------------------------------------------------------
(* Properties of the progress tracker *)

----------------------------------------------------------------------------
(* Properties of the progress goroutine *)

\* C30: once the progress goroutine is launched ProgressFunc is called,
\* besides the calls for ticks, exactly once more; RunPatcher is back at its
\* caller only after that call, and no call follows the return
FinalProgressOnce ==
    [][/\ progress'.finals <= 1
       /\ (progress'.exited /\ progress'.emitter # "off") =>
              progress'.finals = 1 /\ progress'.emitter = "done"
       /\ progress.exited =>
              /\ progress'.ticks = progress.ticks
              /\ progress'.finals = progress.finals
              /\ progress'.exited]_vars

\* A successful run has returned after calls for ticks and the final call
FinalProgressWitness ==
    /\ progress.exited
    /\ result = "ok"
    /\ progress.ticks > 0
    /\ progress.finals = 1

----------------------------------------------------------------------------
(* Properties of the instruction decoder *)

\* C31 as stated: a payload with two records of the same normalized Path is
\* answered with a decoding error
DecoderRejectsDuplicates ==
    LET
        \* Two records of the payload have the same normalized Path
        DuplicateRecords ==
            \E i, j \in 1..Len(jsonData.records) :
                /\ i # j
                /\ NormalizePath(goos, jsonData.records[i].Path)
                       = NormalizePath(goos, jsonData.records[j].Path)
    IN
        (pc = "decoded" /\ DuplicateRecords) => decoded.err # Nil

\* C31: DecodeInstructions looks at each record on its own: a payload that was
\* read and whose records each pass the checks is decoded into one
\* instruction per record, in order, whether or not two of them have the
\* same normalized Path
DecoderKeepsDuplicates ==
    LET
        \* The payload passed the checksum comparison and json.Unmarshal
        PayloadRead == jsonData.hashMatches /\ jsonData.wellFormed

        \* The checks DecodeInstructions makes on one record pass
        RecordAccepted(ri) ==
            LET path == NormalizePath(goos, ri.Path)
            IN  /\ ~IsAbs(goos, path)
                /\ IsLocal(goos, path)
                /\ ri.HasDelta = (ri.DeltaHash # Nil)
    IN
        (pc = "decoded" /\ PayloadRead
             /\ \A i \in 1..Len(jsonData.records) : RecordAccepted(jsonData.records[i]))
        => /\ decoded.err = Nil
           /\ Len(decoded.instructions) = Len(jsonData.records)
           /\ \A i \in 1..Len(jsonData.records) :
                 decoded.instructions[i].Path
                     = NormalizePath(goos, jsonData.records[i].Path)

\* Two records spelled differently with the same normalized Path were decoded
DecoderKeepsDuplicatesWitness ==
    /\ pc = "decoded"
    /\ decoded.err = Nil
    /\ Len(decoded.instructions) = 2
    /\ jsonData.records[1].Path # jsonData.records[2].Path
    /\ ~NoDupPaths(decoded.instructions)

\* C32: a payload with a record whose normalized Path is absolute, begins
\* with a drive letter or begins with ".." is answered with an error
DecoderRejectsUnsafePaths ==
    LET
        \* path begins with a drive letter and a colon
        HasDrivePrefix(path) == Len(path) >= 2 /\ path[1] = "a" /\ path[2] = ":"

        \* The first element of path is ".."
        LeadingDotDot(os, path) == Head(Components(os, path)) = DotDot

        \* The normalized Path of the record is one the spec wants refused
        UnsafeRecord(ri) ==
            LET path == NormalizePath(goos, ri.Path)
            IN  IsAbs(goos, path) \/ HasDrivePrefix(path) \/ LeadingDotDot(goos, path)
    IN
        (pc = "decoded" /\ \E i \in 1..Len(jsonData.records) :
                                UnsafeRecord(jsonData.records[i]))
        => decoded.err # Nil

----------------------------------------------------------------------------
(* Properties of a run with duplicate paths, and of the plan *)

\* C33: a run whose instruction list has the same path twice never gets past
\* the start of the verify phase: no worker of any phase is started, nothing
\* is staged, renamed or deleted, the manifest is not written, and the run
\* returns an error
DuplicatePathsStopRun ==
    LET
        \* Two entries of the list have the same path
        SamePathTwice(instrs) ==
            \E i, j \in 1..Len(instrs) : i < j /\ instrs[i].Path = instrs[j].Path
    IN
        SamePathTwice(instructions) =>
            /\ pc \in {"start", "verify_begin", "returned"}
            /\ existingFiles = EmptyMap /\ toMeasure = <<>>
            /\ verifyW = <<>> /\ downloadW = <<>> /\ applyW = <<>>
            /\ patchFiles = {} /\ tempFiles = EmptyMap
            /\ renamed = <<>> /\ deleted = <<>>
            /\ manifestWrites = 0
            /\ pc = "returned" =>
                  /\ result # "ok"
                  /\ failedAt \in {"start", "verify_begin"}

\* The verify phase refused a list with the same path twice
DuplicatePathsWitness ==
    LET
        \* Two entries of the list have the same path
        SamePathTwice(instrs) ==
            \E i, j \in 1..Len(instrs) : i < j /\ instrs[i].Path = instrs[j].Path
    IN
        /\ SamePathTwice(instructions)
        /\ pc = "returned"
        /\ failedAt = "verify_begin"
        /\ progress.phase["verify"].started
        /\ \E p \in DOMAIN installFiles : installFiles[p] # NoFile

\* C34: the downloads planned for a list without duplicate paths have
\* pairwise distinct local paths
DownloadPathsDistinct ==
    (pc = "plan_done" /\ NoDupPaths(instructions)) =>
        \A i, j \in 1..Len(actions.ToDownload) :
            actions.ToDownload[i].LocalPath = actions.ToDownload[j].LocalPath
                => i = j

UpdatePatchDownloaded ==
    (pc = "plan_done" /\ NoDupPaths(instructions)) =>
        \A u \in Range(actions.ToUpdate) :
            \E d \in Range(actions.ToDownload) : d.LocalPath = u.PatchPath

----------------------------------------------------------------------------
(* Properties of the apply phase, the statistics and the watchdog *)

\* C36: once a patch application of the apply phase has failed, no staged
\* file is renamed onto an install path and no obsolete file is deleted
ApplyFailureMovesNothing ==
    LET
        \* A patch application of the apply phase returned an error
        ApplyFailed ==
            \E i \in 1..Len(applyW) : applyW[i] \in {"err", "canceled"}
    IN
        ApplyFailed => renamed = <<>> /\ deleted = <<>>

\* The run returned the error of an apply phase in which one application
\* failed after another had staged its file, with a file to delete
ApplyFailureWitness ==
    /\ pc = "returned"
    /\ failedAt = "apply"
    /\ \E i, j \in 1..Len(applyW) : applyW[i] = "err" /\ applyW[j] = "ok"
    /\ \E t \in DOMAIN tempFiles : tempFiles[t] # NoFile
    /\ renamed = <<>>

\* C37: bytes read back from the local file do not count as downloaded: as
\* long as DownloadFile has sent no request, the bytes-this-second and
\* bytes-total statistics are zero
CatchUpNotCounted ==
    (dl.pc # "off" /\ dl.requests = <<>>) =>
        /\ dl.bytesDownloadedThisSecond = 0
        /\ dl.bytesDownloadedTotal = 0

\* C38: the watchdog cancels an attempt only after more ticks than the stall
\* timeout has seconds went by in that attempt without a body byte
StallOnlyAfterTimeout ==
    (dl.pc = "streaming" /\ dl.stalled) => dl.silentTicks > StallTimeout

----------------------------------------------------------------------------
(* Properties of the progress of a run *)

\* C39: a phase marked done has all its items completed and no error
DoneMeansAllCompleted ==
    \A ph \in Phases :
        progress.phase[ph].done =>
            /\ progress.phase[ph].completed = progress.phase[ph].needed
            /\ progress.phase[ph].errors = 0
            /\ progress.phase[ph].processing = 0

\* The three phases are done, with a file measured, a patch downloaded and
\* an update applied
DoneMeansAllCompletedWitness ==
    /\ \A ph \in Phases :
          progress.phase[ph].done /\ progress.phase[ph].needed > 0
    /\ Len(verifyW) > 0

====
